---- MODULE Spec2Model ----
(***************************************************************************)
(* Marketing_Automation_Content_Creation: the two step pipelines           *)
(* (agents/marketing_automation_agent.py, agents/content_generation_agent  *)
(* .py), and the message-sequence composer of                              *)
(* workflows/marketing_automation/flow_builder.py.                         *)
(*                                                                         *)
(* A Python dict is a function whose DOMAIN is the set of keys present;    *)
(* an exception is a record [raised |-> TRUE, exc |-> text].  The calls    *)
(* that leave the process (LLM, image service, web fetch) and the calls a  *)
(* node makes into its collaborator are the environment: `faults` is the   *)
(* set of those calls that raise in the run under consideration.           *)
(* Wall-clock fields (timestamps) are not part of this development yet.    *)
(***************************************************************************)
EXTENDS Integers, Sequences, FiniteSets, TLC

VARIABLES
    pipeline,   \* "marketing" | "content" | "none": which run_*_workflow is running
    faults,     \* the external calls that raise during this run
    pc,         \* "construct", a node name, "complete" (END), "returned", "raised"
    state,      \* the state dict threaded through the nodes
    invoked,    \* node functions invoked so far, in order
    result,     \* the record run_*_workflow returned (NoResult before)
    emails_in,  \* build_message_sequence: emails argument
    sms_in,     \* build_message_sequence: sms argument
    sequence,   \* build_message_sequence: returned sequence
    cpc,        \* "ready" | "composed" | "idle"
    clock,      \* datetime.now(), in ticks of a fraction of a second
    plan_in,    \* build_campaign_flow: campaign_plan argument
    flows,      \* the flows the executions of build_campaign_flow returned
    hash_seed,  \* the order in which this process iterates a set of strings,
                \* settled when a set is first iterated
    pkg_in,     \* package_assets: the five collections and the strategy
    package,    \* package_assets: the returned package (NoResult before)
    memory_files, \* the memory directory: file name -> the campaigns list of the file
    savers,     \* each process saving to memory: what it has loaded and is about to write
    save_log,   \* the saves begun and finished so far, and how many began during another
    llm_call,   \* one call of get_llm_response or generate_image: its retry loop
    validated   \* what validate_content_result returned, once called (<<>> before)

vars == <<pipeline, faults, pc, state, invoked, result, emails_in, sms_in, sequence, cpc, clock, plan_in, flows,
                   hash_seed, pkg_in, package,
                   memory_files, savers, save_log,
                   llm_call,
                   validated>>

----------------------------------------------------------------------------
(* Bounds *)
MaxEmails == 2
MaxSms == 2
MaxFaults == 2
MaxUnits == 2
MaxSeqNo == 2
MaxClock == 3
MaxRuns == 2
MaxImages == 2
MaxSaves == 11
MaxRacingSaves == 2
\* the largest number of emails or SMS requested of the planner and generators
MaxPlanned == 10

----------------------------------------------------------------------------
(* dict helpers *)
EmptyDict == <<>>
NoResult == [none |-> TRUE]

Has(d, k) == k \in DOMAIN d
Get(d, k, default) == IF k \in DOMAIN d THEN d[k] ELSE default
Put(d, k, v) == [x \in DOMAIN d \cup {k} |-> IF x = k THEN v ELSE d[x]]

Ok(v) == [raised |-> FALSE, value |-> v]
Raise(text) == [raised |-> TRUE, exc |-> text]

\* str(KeyError(k))
KeyError(k) == "'" \o k \o "'"

ExcForced == "Test error"
ExcLLM == "Failed to get LLM response"
ExcImage == "Failed to generate image"

\* the fault identifiers: <<call, index>>
Fault(call) == <<call, 0>>

----------------------------------------------------------------------------
(* error log *)

FormatErrorNoStep(label, text) == "Error: " \o text

\* f"{label} failed: {str(e)}"
FormatError(label, text) == label \o " failed: " \o text

\* marketing nodes: state["errors"].append(...)
AppendError(s, label, text) ==
    Put(s, "errors", Append(s["errors"], FormatError(label, text)))

ContentAppendErrorReset(s, label, text) ==
    Put(s, "errors", <<FormatError(label, text)>>)

\* content nodes: state["errors"] = state.get("errors", []); state["errors"].append(...)
ContentAppendError(s, label, text) ==
    Put(s, "errors", Append(Get(s, "errors", <<>>), FormatError(label, text)))

----------------------------------------------------------------------------
(* tools/browser_utils.py *)

\* urlparse(url).netloc, without www. and the extension, title-cased
extract_domain_name(url) ==
    CASE url = "https://www.acme.com" -> "Acme"
      [] OTHER -> ""

\* the URLs a caller may pass: a web site, and text that is no URL
BrandUrls == {"https://www.acme.com", "not a url"}

\* trafilatura and requests get nothing from text that is no URL
Fetchable(url) == url = "https://www.acme.com"

analyze_brand_from_url_no_fallback(url, F) ==
    [url |-> url,
     brand_name |-> "Acme Store",
     description |-> "extracted",
     products |-> <<"Widget">>,
     target_audience |-> "extracted",
     colors |-> <<"#112233">>]

analyze_brand_from_url(url, F) ==
    IF Fault("fetch") \in F \/ ~Fetchable(url)
    THEN [url |-> url,
          error |-> "Failed to extract content from " \o url,
          brand_name |-> extract_domain_name(url),
          description |-> "Brand analysis failed - using fallback data",
          products |-> <<"Product or Service">>,
          target_audience |-> "General consumers"]
    ELSE [url |-> url,
          brand_name |-> "Acme Store",
          description |-> "extracted",
          products |-> <<"Widget">>,
          target_audience |-> "extracted",
          colors |-> <<"#112233">>]

----------------------------------------------------------------------------
(* workflows/marketing_automation: planner, email and SMS generators *)

\* timing_patterns.get(campaign_type, timing_patterns["Cart Abandonment"])
TimingPattern(campaign_type) ==
    CASE campaign_type = "Welcome Series" ->
            <<[hours |-> 0, type |-> "email"], [hours |-> 24, type |-> "email"],
              [hours |-> 72, type |-> "email"], [hours |-> 168, type |-> "email"],
              [hours |-> 336, type |-> "email"]>>
      [] campaign_type = "Post-Purchase" ->
            <<[hours |-> 1, type |-> "email"], [hours |-> 24, type |-> "email"],
              [hours |-> 168, type |-> "email"], [hours |-> 504, type |-> "email"],
              [hours |-> 720, type |-> "sms"]>>
      [] campaign_type = "Win-Back" ->
            <<[hours |-> 0, type |-> "email"], [hours |-> 72, type |-> "email"],
              [hours |-> 168, type |-> "sms"], [hours |-> 336, type |-> "email"],
              [hours |-> 504, type |-> "email"]>>
      [] OTHER ->
            <<[hours |-> 1, type |-> "email"], [hours |-> 24, type |-> "email"],
              [hours |-> 48, type |-> "sms"], [hours |-> 72, type |-> "email"],
              [hours |-> 168, type |-> "email"]>>

\* the loop over the pattern: the item at position j is appended while the
\* counter of its type is below the requested number, and the counter moves
\* only on an append, so the r-th item of a type is kept iff r <= the number
generate_campaign_timeline(campaign_type, num_emails, num_sms) ==
    LET pattern == TimingPattern(campaign_type)
        count(j) == Cardinality({k \in 1..j : pattern[k].type = pattern[j].type})
        requested(j) == IF pattern[j].type = "email" THEN num_emails ELSE num_sms
        kept == SelectSeq([j \in 1..Len(pattern) |-> j], LAMBDA j : count(j) <= requested(j))
    IN [i \in 1..Len(kept) |->
          [sequence |-> count(kept[i]),
           type |-> pattern[kept[i]].type,
           trigger_hours |-> pattern[kept[i]].hours]]

extract_email_sequence_plan(num_emails) ==
    [i \in 1..num_emails |-> [email_number |-> i, purpose |-> "Follow-up"]]

extract_sms_sequence_plan(num_sms) ==
    [i \in 1..num_sms |-> [sms_number |-> i, purpose |-> "Additional follow-up"]]

plan_campaign(brand_analysis, campaign_type, num_emails, num_sms, F) ==
    IF Fault("plan_llm") \in F
    THEN Raise(ExcLLM)
    ELSE Ok([campaign_type |-> campaign_type,
             timeline |-> generate_campaign_timeline(campaign_type, num_emails, num_sms),
             email_sequence |-> extract_email_sequence_plan(num_emails),
             sms_sequence |-> extract_sms_sequence_plan(num_sms)])

\* a delay table whose default is daily rather than weekly
get_send_delay_daily_default(email_number) ==
    CASE email_number = 1 -> 1
      [] email_number = 2 -> 24
      [] email_number = 3 -> 72
      [] email_number = 4 -> 168
      [] email_number = 5 -> 336
      [] OTHER -> 24 * email_number

get_send_delay(email_number) ==
    CASE email_number = 1 -> 1
      [] email_number = 2 -> 24
      [] email_number = 3 -> 72
      [] email_number = 4 -> 168
      [] email_number = 5 -> 336
      [] OTHER -> 168 * email_number

get_sms_delay(sms_number) ==
    CASE sms_number = 1 -> 2
      [] sms_number = 2 -> 48
      [] sms_number = 3 -> 168
      [] sms_number = 4 -> 336
      [] sms_number = 5 -> 504
      [] OTHER -> 168 * sms_number

get_email_timing(email_plan) ==
    [sequence_position |-> Get(email_plan, "email_number", 1),
     send_after_hours |-> get_send_delay(Get(email_plan, "email_number", 1))]

get_sms_timing(sms_plan) ==
    [sequence_position |-> Get(sms_plan, "sms_number", 1),
     send_after_hours |-> get_sms_delay(Get(sms_plan, "sms_number", 1))]

parse_email_response(email_plan, sequence_number) ==
    [sequence_number |-> sequence_number,
     purpose |-> Get(email_plan, "purpose", "Engagement"),
     subject |-> "E" \o ToString(sequence_number),
     cta |-> [text |-> "Shop Now", url |-> "[DYNAMIC_URL]"],
     timing |-> get_email_timing(email_plan)]

parse_sms_response(sms_plan, sequence_number) ==
    [sequence_number |-> sequence_number,
     purpose |-> Get(sms_plan, "purpose", "Engagement"),
     message |-> "S" \o ToString(sequence_number),
     timing |-> get_sms_timing(sms_plan)]

\* the loop of generate_emails from index i on; acc is the list built so far
RECURSIVE EmailLoop(_, _, _, _, _)
EmailLoop(i, num_emails, email_sequence, acc, F) ==
    IF i > num_emails THEN Ok(acc)
    ELSE LET email_plan == IF i <= Len(email_sequence) THEN email_sequence[i]
                           ELSE [email_number |-> i, purpose |-> "Follow-up"]
         IN IF <<"email_llm", i>> \in F
            THEN Raise(ExcLLM)
            ELSE EmailLoop(i + 1, num_emails, email_sequence,
                           Append(acc, parse_email_response(email_plan, i)), F)

generate_emails(brand_analysis, campaign_plan, num_emails, F) ==
    EmailLoop(1, num_emails, Get(campaign_plan, "email_sequence", <<>>), <<>>, F)

RECURSIVE SmsLoop(_, _, _, _, _)
SmsLoop(i, num_sms, sms_sequence, acc, F) ==
    IF i > num_sms THEN Ok(acc)
    ELSE LET sms_plan == IF i <= Len(sms_sequence) THEN sms_sequence[i]
                         ELSE [sms_number |-> i, purpose |-> "Follow-up"]
         IN IF <<"sms_llm", i>> \in F
            THEN Raise(ExcLLM)
            ELSE SmsLoop(i + 1, num_sms, sms_sequence,
                         Append(acc, parse_sms_response(sms_plan, i)), F)

generate_sms(brand_analysis, campaign_plan, num_sms, F) ==
    SmsLoop(1, num_sms, Get(campaign_plan, "sms_sequence", <<>>), <<>>, F)

(* workflows/marketing_automation/visual_generator.py *)

\* one visual: the generated record, or the placeholder of the except branch
Visual(type, F) ==
    IF Fault("campaign_image") \in F
    THEN [type |-> type, error |-> ExcImage]
    ELSE [type |-> type, image_url |-> ""]

generate_email_headers(brand_analysis, emails, F) ==
    [i \in 1..Len(emails) |-> Visual("email_header", F)]

generate_product_visuals(brand_analysis, campaign_plan, F) ==
    <<Visual("product_showcase", F)>>

generate_social_proof_visuals(brand_analysis, F) ==
    <<Visual("social_proof", F), Visual("trust_badges", F)>>

\* unique CTA texts of the emails, at most 3 of them
generate_cta_visuals(brand_analysis, emails, F) ==
    LET ctas == {Get(emails[i], "cta", EmptyDict).text :
                    i \in {j \in 1..Len(emails) : Has(Get(emails[j], "cta", EmptyDict), "text")}}
        n == IF Cardinality(ctas) > 3 THEN 3 ELSE Cardinality(ctas)
    IN [i \in 1..n |-> Visual("cta_button", F)]

generate_visuals(brand_analysis, campaign_plan, emails, F) ==
    IF Fault("generate_visuals") \in F
    THEN Raise(ExcForced)
    ELSE Ok(generate_email_headers(brand_analysis, emails, F)
            \o generate_product_visuals(brand_analysis, campaign_plan, F)
            \o generate_social_proof_visuals(brand_analysis, F)
            \o generate_cta_visuals(brand_analysis, emails, F))

----------------------------------------------------------------------------
(* workflows/marketing_automation/flow_builder.py *)

get_trigger_type_no_fallback(campaign_type) ==
    CASE campaign_type = "Cart Abandonment" -> "cart_abandonment"
      [] campaign_type = "Welcome Series" -> "user_signup"
      [] campaign_type = "Post-Purchase" -> "purchase_completed"
      [] campaign_type = "Win-Back" -> "user_inactive"
      [] campaign_type = "Custom" -> "custom_event"
      [] OTHER -> ""

get_trigger_type(campaign_type) ==
    CASE campaign_type = "Cart Abandonment" -> "cart_abandonment"
      [] campaign_type = "Welcome Series" -> "user_signup"
      [] campaign_type = "Post-Purchase" -> "purchase_completed"
      [] campaign_type = "Win-Back" -> "user_inactive"
      [] campaign_type = "Custom" -> "custom_event"
      [] OTHER -> "custom_event"

\* the two loops that fill all_messages: emails first, then SMS
TagEmail(email) ==
    [type |-> "email",
     content |-> email,
     delay_hours |-> Get(Get(email, "timing", EmptyDict), "send_after_hours", 24),
     sequence_number |-> Get(email, "sequence_number", 1)]

\* the tagging of an SMS with the email default for an absent delay
TagSmsEmailDefault(sms_msg) ==
    [type |-> "sms",
     content |-> sms_msg,
     delay_hours |-> Get(Get(sms_msg, "timing", EmptyDict), "send_after_hours", 24),
     sequence_number |-> Get(sms_msg, "sequence_number", 1)]

TagSms(sms_msg) ==
    [type |-> "sms",
     content |-> sms_msg,
     delay_hours |-> Get(Get(sms_msg, "timing", EmptyDict), "send_after_hours", 48),
     sequence_number |-> Get(sms_msg, "sequence_number", 1)]

TagMessagesDropTies(emails, sms) ==
    LET e == [i \in 1..Len(emails) |-> TagEmail(emails[i])]
        keep == SelectSeq([i \in 1..Len(sms) |-> TagSms(sms[i])],
                          LAMBDA m : \A i \in 1..Len(e) : e[i].delay_hours # m.delay_hours)
    IN e \o keep

TagMessages(emails, sms) ==
    [i \in 1..Len(emails) |-> TagEmail(emails[i])]
        \o [i \in 1..Len(sms) |-> TagSms(sms[i])]

\* list.sort(key=delay_hours) is stable: an element lands after every element
\* with a smaller key and after the elements with an equal key that precede it
SortRankTiesReversed(msgs, i) ==
    Cardinality({j \in 1..Len(msgs) : msgs[j].delay_hours < msgs[i].delay_hours})
        + Cardinality({j \in (i + 1)..Len(msgs) : msgs[j].delay_hours = msgs[i].delay_hours})
        + 1

SortRank(msgs, i) ==
    Cardinality({j \in 1..Len(msgs) : msgs[j].delay_hours < msgs[i].delay_hours})
        + Cardinality({j \in 1..(i - 1) : msgs[j].delay_hours = msgs[i].delay_hours})
        + 1

SortByDelay(msgs) ==
    [r \in 1..Len(msgs) |-> msgs[CHOOSE i \in 1..Len(msgs) : SortRank(msgs, i) = r]]

Title(type) == IF type = "email" THEN "Email" ELSE "Sms"

build_message_content_block(content, message_type) ==
    IF message_type = "email"
    THEN [subject |-> Get(content, "subject", ""),
          cta |-> Get(content, "cta", EmptyDict),
          sender_name |-> "{{brand_name}}"]
    ELSE [message |-> Get(content, "message", ""),
          sender_id |-> "{{brand_shortcode}}"]

build_message_conditions(content, message_type) ==
    IF message_type = "sms"
    THEN <<"not_completed_goal", "subscribed", "sms_consent">>
    ELSE <<"not_completed_goal", "subscribed">>

StepIdZeroBased(i) == "step_" \o ToString(i - 1)

StepId(i) == "step_" \o ToString(i)

build_message_sequence(emails, sms) ==
    LET all_messages == SortByDelay(TagMessages(emails, sms))
        n == Len(all_messages)
    IN [i \in 1..n |->
          [step_id |-> StepId(i),
           step_type |-> all_messages[i].type,
           step_name |-> Title(all_messages[i].type) \o " "
                            \o ToString(all_messages[i].sequence_number),
           delay |-> [type |-> "time_delay",
                      value |-> all_messages[i].delay_hours,
                      unit |-> "hours"],
           content |-> build_message_content_block(all_messages[i].content,
                                                   all_messages[i].type),
           conditions |-> build_message_conditions(all_messages[i].content,
                                                   all_messages[i].type),
           next_step |-> IF i < n THEN StepId(i + 1) ELSE "end_flow"]]

ExitTriggers ==
    <<[type |-> "goal_achieved", condition |-> "user_converts", action |-> "remove_from_flow"],
      [type |-> "user_action", condition |-> "unsubscribe", action |-> "remove_from_flow"],
      [type |-> "time_limit", condition |-> "30_days_elapsed", action |-> "complete_flow"]>>

build_flow_triggers_no_time_limit(campaign_plan) ==
    [entry_trigger |-> [type |-> get_trigger_type(Get(campaign_plan, "campaign_type", "")),
                        delay |-> "0 minutes"],
     exit_triggers |-> SubSeq(ExitTriggers, 1, 2)]

build_flow_triggers(campaign_plan) ==
    [entry_trigger |-> [type |-> get_trigger_type(Get(campaign_plan, "campaign_type", "")),
                        delay |-> "0 minutes"],
     exit_triggers |-> ExitTriggers]

\* datetime.now() rendered by strftime("%Y%m%d_%H%M%S") keeps whole seconds;
\* isoformat() keeps the fraction
TicksPerSecond == 2

strftime_seconds(now) == ToString(now \div TicksPerSecond)

isoformat(now) == "T" \o ToString(now)

\* campaign_type.lower().replace(" ", "_")
LowerUnderscore(campaign_type) ==
    CASE campaign_type = "Cart Abandonment" -> "cart_abandonment"
      [] campaign_type = "Welcome Series" -> "welcome_series"
      [] campaign_type = "Post-Purchase" -> "post-purchase"
      [] campaign_type = "Win-Back" -> "win-back"
      [] campaign_type = "Custom" -> "custom"
      [] campaign_type = "custom" -> "custom"
      [] campaign_type = "Flash Sale" -> "flash_sale"
      [] campaign_type = "Welcome Back" -> "welcome_back"

generate_flow_id(campaign_plan, now) ==
    LowerUnderscore(Get(campaign_plan, "campaign_type", "custom"))
        \o "_flow_" \o strftime_seconds(now)

generate_flow_name(campaign_plan) ==
    Get(campaign_plan, "brand_name", "Brand") \o " - "
        \o Get(campaign_plan, "campaign_type", "Custom") \o " Campaign"

EmailDelay(email) == Get(Get(email, "timing", EmptyDict), "send_after_hours", 24)

SmsDelay(sms_msg) == Get(Get(sms_msg, "timing", EmptyDict), "send_after_hours", 48)

\* the exports walk the emails list, then the sms list
generate_klaviyo_export(campaign_plan, emails, sms, visuals) ==
    [flow_name |-> generate_flow_name(campaign_plan),
     messages |->
        [i \in 1..Len(emails) |->
            [type |-> "email",
             name |-> "Email " \o ToString(Get(emails[i], "sequence_number", 1)),
             delay |-> EmailDelay(emails[i]),
             delay_unit |-> "hours",
             subject |-> Get(emails[i], "subject", "")]]
        \o [i \in 1..Len(sms) |->
            [type |-> "sms",
             name |-> "SMS " \o ToString(Get(sms[i], "sequence_number", 1)),
             delay |-> SmsDelay(sms[i]),
             delay_unit |-> "hours",
             body |-> Get(sms[i], "message", "")]]]

generate_mailchimp_export(campaign_plan, emails, sms) ==
    [automation_name |-> generate_flow_name(campaign_plan),
     trigger_type |-> "audience",
     emails |-> [i \in 1..Len(emails) |->
                    [delay |-> EmailDelay(emails[i]),
                     delay_unit |-> "hours",
                     subject |-> Get(emails[i], "subject", "")]]]

generate_hubspot_export(campaign_plan, emails, sms) ==
    [workflow_name |-> generate_flow_name(campaign_plan),
     actions |-> [i \in 1..Len(emails) |->
                    [type |-> "send_email",
                     delay |-> EmailDelay(emails[i]),
                     email_subject |-> Get(emails[i], "subject", "")]]]

\* the CSV text, as its rows: the header row, then one row per message
generate_csv_export(emails, sms) ==
    <<<<"Type", "Sequence", "Subject/Message", "Body", "Delay Hours", "Purpose">>>>
        \o [i \in 1..Len(emails) |->
              <<"Email", ToString(Get(emails[i], "sequence_number", 1)),
                Get(emails[i], "subject", ""), "...",
                ToString(EmailDelay(emails[i])), Get(emails[i], "purpose", "")>>]
        \o [i \in 1..Len(sms) |->
              <<"SMS", ToString(Get(sms[i], "sequence_number", 1)),
                Get(sms[i], "message", ""), "",
                ToString(SmsDelay(sms[i])), Get(sms[i], "purpose", "")>>]

generate_json_export(campaign_plan, emails, sms, visuals, now) ==
    [campaign_plan |-> campaign_plan,
     emails |-> emails,
     sms |-> sms,
     visuals |-> visuals,
     export_timestamp |-> isoformat(now),
     version |-> "1.0"]

generate_export_formats(campaign_plan, emails, sms, visuals, now) ==
    [klaviyo |-> generate_klaviyo_export(campaign_plan, emails, sms, visuals),
     mailchimp |-> generate_mailchimp_export(campaign_plan, emails, sms),
     hubspot |-> generate_hubspot_export(campaign_plan, emails, sms),
     generic_csv |-> generate_csv_export(emails, sms),
     json |-> generate_json_export(campaign_plan, emails, sms, visuals, now)]

\* word in text, for two strings
Contains(text, word) ==
    \E i \in 1..(Len(text) - Len(word) + 1) : SubSeq(text, i, i + Len(word) - 1) = word

build_segment_conditions(campaign_plan) ==
    LET campaign_type == Get(campaign_plan, "campaign_type", "")
    IN <<"email_address_exists">>
          \o (IF Contains(campaign_type, "Cart Abandonment")
              THEN <<"has_cart_items", "cart_value_greater_than_0",
                     "not_purchased_in_last_hour">>
              ELSE IF Contains(campaign_type, "Welcome")
              THEN <<"signed_up_in_last_24_hours", "not_in_other_welcome_flows">>
              ELSE IF Contains(campaign_type, "Post-Purchase")
              THEN <<"purchased_in_last_hour", "order_total_greater_than_0">>
              ELSE IF Contains(campaign_type, "Win-Back")
              THEN <<"last_active_30_days_ago", "previous_purchase_exists">>
              ELSE <<>>)

build_flow_segmentation(campaign_plan) ==
    [target_segments |->
        <<[name |-> "Primary Target",
           description |-> Get(campaign_plan, "target_audience", "General customers"),
           conditions |-> build_segment_conditions(campaign_plan)]>>,
     exclusion_segments |->
        <<[name |-> "Recent Converters", conditions |-> <<"converted_in_last_7_days">>],
          [name |-> "Suppressed Users", conditions |-> <<"in_suppression_list">>]>>,
     dynamic_segmentation |-> TRUE]

build_campaign_flow(campaign_plan, emails, sms, visuals, now, F) ==
    IF Fault("build_campaign_flow") \in F
    THEN Raise(ExcForced)
    ELSE Ok([flow_id |-> generate_flow_id(campaign_plan, now),
             flow_name |-> generate_flow_name(campaign_plan),
             flow_type |-> Get(campaign_plan, "campaign_type", "Custom"),
             created_at |-> isoformat(now),
             status |-> "draft",
             triggers |-> build_flow_triggers(campaign_plan),
             sequence |-> build_message_sequence(emails, sms),
             segmentation |-> build_flow_segmentation(campaign_plan),
             asset_count |-> Len(visuals) + Len(emails) + Len(sms),
             export_formats |->
                generate_export_formats(campaign_plan, emails, sms, visuals, now)])

----------------------------------------------------------------------------
(* agents/marketing_automation_agent.py: the nodes.  state[k] of an absent *)
(* key raises KeyError(k); the arguments of a call are evaluated in order. *)

\* the first key of ks that is absent from s, "" when all are present
RECURSIVE FirstMissing(_, _)
FirstMissing(s, ks) ==
    IF ks = <<>> THEN ""
    ELSE IF ~Has(s, Head(ks)) THEN Head(ks) ELSE FirstMissing(s, Tail(ks))

analyze_brand_node(s, F) ==
    IF Fault("analyze_brand_from_url") \in F
    THEN AppendError(s, "Brand analysis", ExcForced)
    ELSE Put(s, "brand_analysis", analyze_brand_from_url(s["brand_url"], F))

plan_campaign_node(s, F) ==
    LET missing == FirstMissing(s, <<"brand_analysis", "campaign_type", "num_emails",
                                     "num_sms", "target_audience", "tone">>)
    IN IF missing # ""
       THEN AppendError(s, "Campaign planning", KeyError(missing))
       ELSE LET r == plan_campaign(s["brand_analysis"], s["campaign_type"],
                                   s["num_emails"], s["num_sms"], F)
            IN IF r.raised
               THEN AppendError(s, "Campaign planning", r.exc)
               ELSE Put(s, "campaign_plan", r.value)

generate_emails_node(s, F) ==
    LET missing == FirstMissing(s, <<"brand_analysis", "campaign_plan", "num_emails", "tone">>)
    IN IF missing # ""
       THEN AppendError(s, "Email generation", KeyError(missing))
       ELSE LET r == generate_emails(s["brand_analysis"], s["campaign_plan"],
                                     s["num_emails"], F)
            IN IF r.raised
               THEN AppendError(s, "Email generation", r.exc)
               ELSE Put(s, "emails", r.value)

generate_sms_node(s, F) ==
    IF ~Has(s, "num_sms")
    THEN AppendError(s, "SMS generation", KeyError("num_sms"))
    ELSE IF s["num_sms"] > 0
    THEN LET missing == FirstMissing(s, <<"brand_analysis", "campaign_plan", "num_sms", "tone">>)
         IN IF missing # ""
            THEN AppendError(s, "SMS generation", KeyError(missing))
            ELSE LET r == generate_sms(s["brand_analysis"], s["campaign_plan"],
                                       s["num_sms"], F)
                 IN IF r.raised
                    THEN AppendError(s, "SMS generation", r.exc)
                    ELSE Put(s, "sms", r.value)
    ELSE s

generate_visuals_node(s, F) ==
    LET missing == FirstMissing(s, <<"brand_analysis", "campaign_plan", "emails">>)
    IN IF missing # ""
       THEN AppendError(s, "Visual generation", KeyError(missing))
       ELSE LET r == generate_visuals(s["brand_analysis"], s["campaign_plan"],
                                      s["emails"], F)
            IN IF r.raised
               THEN AppendError(s, "Visual generation", r.exc)
               ELSE Put(s, "visuals", r.value)

build_flow_node(s, F) ==
    LET missing == FirstMissing(s, <<"campaign_plan", "emails", "sms", "visuals">>)
    IN IF missing # ""
       THEN AppendError(s, "Flow building", KeyError(missing))
       ELSE LET r == build_campaign_flow(s["campaign_plan"], s["emails"],
                                         s["sms"], s["visuals"], clock, F)
            IN IF r.raised
               THEN AppendError(s, "Flow building", r.exc)
               ELSE Put(s, "campaign_flow", r.value)

----------------------------------------------------------------------------
(* workflows/content_generation: generators *)

generate_ad_copy(content_strategy, F) ==
    IF Fault("ad_copy_llm") \in F
    THEN Raise(ExcLLM)
    ELSE Ok([i \in 1..3 |-> [variant |-> i,
                             headline |-> "H" \o ToString(i),
                             cta |-> "Get Started Now"]])

generate_social_captions(content_strategy, F) ==
    IF Fault("social_llm") \in F
    THEN Raise(ExcLLM)
    ELSE Ok([instagram |-> <<"ig caption">>,
             tiktok |-> <<"tt caption">>,
             linkedin |-> <<"li caption">>])

get_image_dimensions(image_type) ==
    CASE image_type = "hero_image" -> "1920x1072"
      [] image_type = "social_post" -> "1072x1072"
      [] image_type = "ad_creative" -> "1200x624"
      [] image_type = "product_showcase" -> "992x992"
      [] OTHER -> "1072x1072"

ImageTypes(include_product_visuals) ==
    <<"hero_image", "social_post", "ad_creative">>
        \o (IF include_product_visuals THEN <<"product_showcase">> ELSE <<>>)

\* generate_single_static_image; the call of generate_image may raise
generate_single_static_image(image_type, i, F) ==
    IF <<"image", i>> \in F
    THEN Raise(ExcImage)
    ELSE Ok([type |-> image_type,
             dimensions |-> get_image_dimensions(image_type),
             file_name |-> image_type \o ".png"])

\* the loop keeps going after a failure and stores a placeholder
generate_static_images(content_strategy, include_product_visuals, F) ==
    IF Fault("generate_static_images") \in F
    THEN Raise(ExcForced)
    ELSE LET image_types == ImageTypes(include_product_visuals)
         IN Ok([i \in 1..Len(image_types) |->
                  LET r == generate_single_static_image(image_types[i], i, F)
                  IN IF r.raised
                     THEN [type |-> image_types[i], error |-> r.exc, status |-> "failed"]
                     ELSE r.value])

generate_ugc_scripts(content_strategy, F) ==
    IF Fault("ugc_llm") \in F
    THEN Raise(ExcLLM)
    ELSE Ok([i \in 1..4 |->
               [type |-> <<"testimonial", "product_demo", "unboxing", "before_after">>[i],
                title |-> "script " \o ToString(i)]])

\* header, hero, footer and two CTA buttons, each with its own try/except
EmailAsset(type, dimensions, F) ==
    IF Fault("asset_image") \in F
    THEN [type |-> type, dimensions |-> dimensions, error |-> ExcImage]
    ELSE [type |-> type, dimensions |-> dimensions, file_name |-> type \o ".png"]

generate_email_assets(content_strategy, F) ==
    IF Fault("generate_email_assets") \in F
    THEN Raise(ExcForced)
    ELSE Ok(<<EmailAsset("email_header", "600x200", F),
              EmailAsset("email_hero", "600x400", F),
              EmailAsset("email_footer", "600x150", F),
              EmailAsset("primary_cta_button", "200x50", F),
              EmailAsset("secondary_cta_button", "180x40", F)>>)

----------------------------------------------------------------------------
(* workflows/content_generation/asset_packager.py *)

\* the five names create_content_summary puts into a set, as written
SummaryNames == <<"ad_copy", "social_captions", "images", "ugc_scripts", "email_assets">>

\* iterating a set of strings follows their hashes, which differ from one
\* process to the next: the written order is one outcome, its reverse another
HashOrders ==
    {SummaryNames,
     <<"email_assets", "ugc_scripts", "images", "social_captions", "ad_copy">>}

RECURSIVE SumLens(_, _)
SumLens(d, keys) ==
    IF keys = {} THEN 0
    ELSE LET k == CHOOSE x \in keys : TRUE
         IN Len(d[k]) + SumLens(d, keys \ {k})

\* a truthy collection: a list or a dict that has at least one element
Truthy(collection) == DOMAIN collection # {}

\* list(set([...]) - {None}): the names of the truthy collections, in the order
\* in which the set yields them
create_content_summary(ad_copy, social_captions, images, ugc_scripts, email_assets, hash_order) ==
    LET truthy == {n \in {"ad_copy"} : Truthy(ad_copy)}
                     \cup {n \in {"social_captions"} : Truthy(social_captions)}
                     \cup {n \in {"images"} : Truthy(images)}
                     \cup {n \in {"ugc_scripts"} : Truthy(ugc_scripts)}
                     \cup {n \in {"email_assets"} : Truthy(email_assets)}
    IN [total_assets |-> Len(ad_copy) + SumLens(social_captions, DOMAIN social_captions)
                            + Len(images) + Len(ugc_scripts) + Len(email_assets),
        ad_copy_variants |-> Len(ad_copy),
        social_platforms |-> Cardinality(DOMAIN social_captions),
        total_social_captions |-> SumLens(social_captions, DOMAIN social_captions),
        images_generated |-> Len(images),
        ugc_scripts |-> Len(ugc_scripts),
        email_assets |-> Len(email_assets),
        content_types |-> SelectSeq(hash_order, LAMBDA n : n \in truthy)]

\* [img for img in images if img.get("type") in types]
ImagesOfType(images, types) ==
    SelectSeq(images, LAMBDA img : Has(img, "type") /\ img["type"] \in types)

\* [img for img in images if img.get("dimensions") in dims]
ImagesOfDimensions(images, dims) ==
    SelectSeq(images, LAMBDA img : Has(img, "dimensions") /\ img["dimensions"] \in dims)

\* "email" in img.get("type", "").lower(), on the type names in use
EmailTypes == {"email_header", "email_hero", "email_footer"}

organize_assets_by_type(ad_copy, social_captions, images, ugc_scripts, email_assets) ==
    [advertising |->
        [ad_copy_variants |-> ad_copy,
         ad_images |-> ImagesOfType(images, {"ad_creative", "hero_image"})],
     social_media |->
        [captions_by_platform |-> social_captions,
         social_images |-> ImagesOfType(images, {"social_post", "product_showcase"}),
         ugc_video_scripts |-> ugc_scripts],
     email_marketing |->
        [email_creative_assets |-> email_assets,
         email_images |-> ImagesOfType(images, EmailTypes)],
     video_content |->
        [ugc_scripts |-> ugc_scripts,
         video_thumbnails |-> ImagesOfType(images, {"hero_image", "product_showcase"})]]

\* [script for script in ugc_scripts if platform in script.get("platform_versions", {})]
ScriptsFor(platform, ugc_scripts) ==
    SelectSeq(ugc_scripts,
              LAMBDA script : platform \in DOMAIN Get(script, "platform_versions", EmptyDict))

create_platform_kits(ad_copy, social_captions, images, ugc_scripts) ==
    [instagram |->
        [feed_posts |-> [captions |-> Get(social_captions, "instagram", <<>>),
                         images |-> ImagesOfDimensions(images, {"1080x1080"})],
         reels |-> [scripts |-> ScriptsFor("instagram", ugc_scripts)]],
     tiktok |->
        [video_content |-> [scripts |-> ScriptsFor("tiktok", ugc_scripts),
                            captions |-> Get(social_captions, "tiktok", <<>>)]],
     facebook |->
        [posts |-> [images |-> ImagesOfDimensions(images, {"1200x628", "1080x1080"}),
                    video_content |-> Get(social_captions, "facebook", <<>>)]],
     linkedin |->
        [posts |-> [captions |-> Get(social_captions, "linkedin", <<>>)]]]

get_primary_ad_copy(ad_copy) == IF ad_copy # <<>> THEN ad_copy[1] ELSE EmptyDict

get_hero_image_first_only(images) == IF images # <<>> THEN images[1] ELSE EmptyDict

get_hero_image(images) ==
    LET tagged == ImagesOfType(images, {"hero_image"})
    IN IF tagged # <<>> THEN tagged[1]
       ELSE IF images # <<>> THEN images[1] ELSE EmptyDict

get_launch_social_content(social_captions) ==
    LET with_captions == {pl \in DOMAIN social_captions : social_captions[pl] # <<>>}
    IN [pl \in with_captions |-> social_captions[pl][1]]

get_email_header(email_assets) ==
    LET tagged == ImagesOfType(email_assets, {"email_header"})
    IN IF tagged # <<>> THEN tagged[1] ELSE EmptyDict

create_campaign_sets(ad_copy, social_captions, images, email_assets) ==
    [launch_campaign |->
        [assets |-> [hero_ad |-> get_primary_ad_copy(ad_copy),
                     hero_image |-> get_hero_image(images),
                     social_announcement |-> get_launch_social_content(social_captions),
                     email_header |-> get_email_header(email_assets)]],
     engagement_campaign |->
        [assets |-> [social_series |-> social_captions,
                     visual_content |-> ImagesOfType(images, {"social_post"})]],
     conversion_campaign |->
        [assets |-> [conversion_ads |-> SelectSeq(ad_copy, LAMBDA copy : Has(copy, "cta")),
                     product_images |-> ImagesOfType(images, {"product_showcase"}),
                     email_sequence |-> email_assets]]]

prepare_ad_copy_csv(ad_copy) ==
    [i \in 1..Len(ad_copy) |->
        [variant |-> "Variant " \o ToString(i),
         headline |-> Get(ad_copy[i], "headline", ""),
         cta |-> Get(ad_copy[i], "cta", "")]]

\* the rows of each platform, numbered within the platform
prepare_social_csv(social_captions) ==
    [pl \in DOMAIN social_captions |->
        [i \in 1..Len(social_captions[pl]) |->
            [platform |-> pl, caption_number |-> i,
             caption_text |-> social_captions[pl][i]]]]

prepare_asset_inventory_csv(images, ugc_scripts, email_assets) ==
    [i \in 1..Len(images) |->
        [asset_type |-> "Image",
         asset_name |-> Get(images[i], "file_name", ""),
         dimensions |-> Get(images[i], "dimensions", "")]]
    \o [i \in 1..Len(ugc_scripts) |->
        [asset_type |-> "UGC Script",
         asset_name |-> Get(ugc_scripts[i], "title", "")]]
    \o [i \in 1..Len(email_assets) |->
        [asset_type |-> "Email Asset",
         asset_name |-> Get(email_assets[i], "file_name", ""),
         dimensions |-> Get(email_assets[i], "dimensions", "")]]

prepare_export_formats(ad_copy, social_captions, images, ugc_scripts, email_assets) ==
    [csv |-> [ad_copy_spreadsheet |-> prepare_ad_copy_csv(ad_copy),
              social_content_calendar |-> prepare_social_csv(social_captions),
              asset_inventory |->
                  prepare_asset_inventory_csv(images, ugc_scripts, email_assets)]]

package_assets(ad_copy, social_captions, images, ugc_scripts, email_assets, content_strategy, hash_order, F) ==
    IF Fault("package_assets") \in F
    THEN Raise(ExcForced)
    ELSE Ok([package_info |-> [status |-> "ready_for_use", version |-> "1.0"],
             content_summary |->
                create_content_summary(ad_copy, social_captions, images, ugc_scripts,
                                       email_assets, hash_order),
             organized_assets |->
                organize_assets_by_type(ad_copy, social_captions, images, ugc_scripts,
                                        email_assets),
             platform_kits |->
                create_platform_kits(ad_copy, social_captions, images, ugc_scripts),
             campaign_ready_sets |->
                create_campaign_sets(ad_copy, social_captions, images, email_assets),
             export_formats |->
                prepare_export_formats(ad_copy, social_captions, images, ugc_scripts,
                                       email_assets)])

----------------------------------------------------------------------------
(* agents/content_generation_agent.py: the nodes *)

analyze_requirements_node(s, F) ==
    IF Fault("analyze_requirements") \in F
    THEN ContentAppendError(s, "Requirements analysis", ExcForced)
    ELSE Put(s, "content_strategy",
             [product_description |-> s["product_description"],
              target_audience |-> s["target_audience"],
              content_types |-> s["content_types"],
              brand_tone |-> s["brand_tone"]])

generate_ad_copy_node(s, F) ==
    IF "ad_copy" \in s["content_types"]
    THEN IF ~Has(s, "content_strategy")
         THEN ContentAppendError(s, "Ad copy generation", KeyError("content_strategy"))
         ELSE LET r == generate_ad_copy(s["content_strategy"], F)
              IN IF r.raised
                 THEN ContentAppendError(s, "Ad copy generation", r.exc)
                 ELSE Put(s, "ad_copy", r.value)
    ELSE s

generate_social_content_node(s, F) ==
    IF "social_captions" \in s["content_types"]
    THEN IF ~Has(s, "content_strategy")
         THEN ContentAppendError(s, "Social content generation", KeyError("content_strategy"))
         ELSE LET r == generate_social_captions(s["content_strategy"], F)
              IN IF r.raised
                 THEN ContentAppendError(s, "Social content generation", r.exc)
                 ELSE Put(s, "social_captions", r.value)
    ELSE s

generate_images_node(s, F) ==
    IF "static_images" \in s["content_types"] \/ "product_visuals" \in s["content_types"]
    THEN IF ~Has(s, "content_strategy")
         THEN ContentAppendError(s, "Image generation", KeyError("content_strategy"))
         ELSE LET r == generate_static_images(s["content_strategy"],
                                              "product_visuals" \in s["content_types"], F)
              IN IF r.raised
                 THEN ContentAppendError(s, "Image generation", r.exc)
                 ELSE Put(s, "images", r.value)
    ELSE s

generate_video_scripts_node(s, F) ==
    IF "ugc_scripts" \in s["content_types"]
    THEN IF ~Has(s, "content_strategy")
         THEN ContentAppendError(s, "Video script generation", KeyError("content_strategy"))
         ELSE LET r == generate_ugc_scripts(s["content_strategy"], F)
              IN IF r.raised
                 THEN ContentAppendError(s, "Video script generation", r.exc)
                 ELSE Put(s, "ugc_scripts", r.value)
    ELSE s

generate_email_assets_node(s, F) ==
    IF "email_creative" \in s["content_types"]
    THEN IF ~Has(s, "content_strategy")
         THEN ContentAppendError(s, "Email asset generation", KeyError("content_strategy"))
         ELSE LET r == generate_email_assets(s["content_strategy"], F)
              IN IF r.raised
                 THEN ContentAppendError(s, "Email asset generation", r.exc)
                 ELSE Put(s, "email_assets", r.value)
    ELSE s

package_final_assets_node_strict(s, hash_order, F) ==
    LET missing == FirstMissing(s, <<"ad_copy", "social_captions", "images", "ugc_scripts",
                                     "email_assets", "content_strategy">>)
    IN IF missing # ""
       THEN ContentAppendError(s, "Asset packaging", KeyError(missing))
       ELSE LET r == package_assets(s["ad_copy"], s["social_captions"], s["images"],
                                    s["ugc_scripts"], s["email_assets"],
                                    s["content_strategy"], hash_order, F)
            IN IF r.raised
               THEN ContentAppendError(s, "Asset packaging", r.exc)
               ELSE Put(s, "final_package", r.value)

package_final_assets_node(s, hash_order, F) ==
    IF ~Has(s, "content_strategy")
    THEN ContentAppendError(s, "Asset packaging", KeyError("content_strategy"))
    ELSE LET r == package_assets(Get(s, "ad_copy", <<>>),
                                 Get(s, "social_captions", EmptyDict),
                                 Get(s, "images", <<>>),
                                 Get(s, "ugc_scripts", <<>>),
                                 Get(s, "email_assets", <<>>),
                                 s["content_strategy"], hash_order, F)
         IN IF r.raised
            THEN ContentAppendError(s, "Asset packaging", r.exc)
            ELSE Put(s, "final_package", r.value)

----------------------------------------------------------------------------
(* memory: save_campaign_to_memory (agent) and save_to_memory (app) *)

\* if len(memory["campaigns"]) > 10: memory["campaigns"] = memory["campaigns"][-10:]
MemoryCap == 10

\* the processes that may save at the same time
Savers == {1, 2}

\* brand_name.lower().replace(' ', '_')
BrandKey(brand_name) ==
    CASE brand_name = "acme" -> "acme"
      [] brand_name = "Test Brand" -> "test_brand"

\* the file each function opens for a brand
MemoryFile(fn, brand_name) ==
    IF fn = "save_campaign_to_memory"
    THEN "memory/" \o BrandKey(brand_name) \o "_memory.json"
    ELSE "memory/" \o brand_name \o "_memory.json"

\* json.load of the file if it exists, else {"brand_name": ..., "campaigns": []}
LoadCampaigns(files, file) == IF file \in DOMAIN files THEN files[file] ELSE <<>>

AppendCampaignOverwrite(campaigns, campaign_result) == <<campaign_result>>

\* memory["campaigns"].append(campaign_result)
AppendCampaign(campaigns, campaign_result) == Append(campaigns, campaign_result)

\* campaigns[-n:]
KeepLast(campaigns, n) ==
    IF Len(campaigns) > n
    THEN SubSeq(campaigns, Len(campaigns) - n + 1, Len(campaigns))
    ELSE campaigns

\* what the function writes back, from what it loaded
CampaignsToWrite(fn, campaigns, campaign_result) ==
    IF fn = "save_campaign_to_memory"
    THEN KeepLast(AppendCampaign(campaigns, campaign_result), MemoryCap)
    ELSE AppendCampaign(campaigns, campaign_result)

NotSaving == [at |-> "idle", fn |-> "", file |-> "", campaigns |-> <<>>, campaign_result |-> 0]

MemoryIdle ==
    /\ memory_files = EmptyDict
    /\ savers = [p \in Savers |-> NotSaving]
    /\ save_log = [brand_name |-> "", begun |-> 0, done |-> <<>>, overlaps |-> 0]

----------------------------------------------------------------------------
(* tools/llm_manager.py get_llm_response, tools/image_gen.py generate_image *)

\* config["max_retries"]
MaxRetries == 3

\* what requests.post gives on one attempt: a status code, a 200 whose body
\* cannot be used, or a requests.exceptions.RequestException
Responses == {"200", "200_unusable", "429", "503", "500", "RequestException"}

NoCall == [fn |-> "", at |-> "idle", attempt |-> 0, responses |-> <<>>, slept |-> <<>>, exc |-> ""]

\* time.sleep(wait_time) on the current attempt
Sleep(c, wait_time) ==
    [c EXCEPT !.slept = Append(@, [attempt |-> c.attempt, wait_time |-> wait_time])]

CallRaises(c, text) == [c EXCEPT !.at = "raised", !.exc = text]

\* the text of the exception raised after the loop
ExhaustedText(fn) == IF fn = "get_llm_response" THEN ExcLLM ELSE ExcImage

LastAttemptText(fn) ==
    IF fn = "get_llm_response"
    THEN "Failed to get LLM response after 3 attempts: timeout"
    ELSE "Failed to generate image after 3 attempts: timeout"

UnusableText(fn) ==
    IF fn = "get_llm_response" THEN "No choices in response" ELSE "cannot identify image file"

ContinueLoopNoBudget(c) == [c EXCEPT !.attempt = @ + 1]

\* continue: the next attempt, or the raise after the loop when none is left
ContinueLoop(c) ==
    IF c.attempt + 1 < MaxRetries
    THEN [c EXCEPT !.attempt = @ + 1]
    ELSE CallRaises(c, ExhaustedText(c.fn))

\* one pass through the body of "for attempt in range(config["max_retries"])"
AfterResponse(c0, response) ==
    LET c == [c0 EXCEPT !.responses = Append(@, response)]
    IN CASE response = "200" -> [c EXCEPT !.at = "returned"]
         [] response = "200_unusable" -> CallRaises(c, UnusableText(c.fn))
         [] response = "429" -> ContinueLoop(Sleep(c, 2 ^ c.attempt))
         [] response = "503" /\ c.fn = "generate_image" ->
               ContinueLoop(Sleep(c, 10 + c.attempt * 5))
         [] response = "RequestException" ->
               IF c.attempt = MaxRetries - 1
               THEN CallRaises(c, LastAttemptText(c.fn))
               ELSE ContinueLoop(Sleep(c, 2 ^ c.attempt))
         [] OTHER -> CallRaises(c, "API request failed with status " \o response)

RetryIdle == llm_call = NoCall

----------------------------------------------------------------------------
(* the compiled graphs: entry point, edges, END *)

MarketingSteps ==
    <<"analyze_brand", "plan_campaign", "generate_emails", "generate_sms",
      "generate_visuals", "build_flow">>

ContentSteps ==
    <<"analyze_requirements", "generate_ad_copy", "generate_social_content",
      "generate_images", "generate_video_scripts", "generate_email_assets",
      "package_assets">>

Steps(p) == IF p = "marketing" THEN MarketingSteps ELSE ContentSteps

IndexOf(steps, name) == CHOOSE i \in 1..Len(steps) : steps[i] = name

NextPcSkip(steps, name) ==
    LET i == IndexOf(steps, name)
    IN IF i + 1 < Len(steps) THEN steps[i + 2] ELSE "complete"

\* add_edge(a, b): the node after name, END after the last one
NextPc(steps, name) ==
    LET i == IndexOf(steps, name)
    IN IF i < Len(steps) THEN steps[i + 1] ELSE "complete"

----------------------------------------------------------------------------
(* inputs *)

CampaignTypes == {"Cart Abandonment", "Custom"}

ContentTypes == {"ad_copy", "social_captions", "static_images", "product_visuals",
                 "ugc_scripts", "email_creative"}

MarketingFaults ==
    {Fault("construct"), Fault("invoke"), Fault("analyze_brand_from_url"), Fault("fetch"),
     Fault("plan_llm"), Fault("generate_visuals"), Fault("campaign_image"),
     Fault("build_campaign_flow")}
        \cup {<<"email_llm", i>> : i \in 1..MaxEmails}
        \cup {<<"sms_llm", i>> : i \in 1..MaxSms}

ContentFaults ==
    {Fault("construct"), Fault("invoke"), Fault("analyze_requirements"), Fault("ad_copy_llm"),
     Fault("social_llm"), Fault("generate_static_images"), Fault("ugc_llm"),
     Fault("generate_email_assets"), Fault("asset_image"), Fault("package_assets")}
        \cup {<<"image", i>> : i \in 1..4}

MarketingInitialState(brand_url, campaign_type, num_emails, num_sms) ==
    [brand_url |-> brand_url,
     campaign_type |-> campaign_type,
     custom_prompt |-> "",
     num_emails |-> num_emails,
     num_sms |-> num_sms,
     target_audience |-> "General customers",
     tone |-> "Professional",
     errors |-> <<>>]

ContentInitialState(content_types) ==
    [product_description |-> "premium widget",
     target_audience |-> "busy people",
     content_types |-> content_types,
     brand_tone |-> "Professional",
     brand_colors |-> "",
     errors |-> <<>>]

ComposeIdle ==
    /\ emails_in = <<>>
    /\ sms_in = <<>>
    /\ sequence = <<>>
    /\ cpc = "idle"

FlowIdle ==
    /\ clock = 0
    /\ plan_in = EmptyDict
    /\ flows = <<>>

PackageIdle ==
    /\ pkg_in = EmptyDict
    /\ package = NoResult

ValidateIdle == validated = <<>>

RestIdle == MemoryIdle /\ RetryIdle /\ ValidateIdle

\* no run has been started
Init ==
    /\ pipeline = "none"
    /\ faults = {}
    /\ state = EmptyDict
    /\ pc = "idle"
    /\ invoked = <<>>
    /\ result = NoResult
    /\ ComposeIdle
    /\ FlowIdle
    /\ hash_seed = SummaryNames
    /\ PackageIdle
    /\ RestIdle

\* a caller enters one of the two run functions: the arguments become the
\* initial state; the calls that will fail during this run are the environment's
Call ==
    /\ pc = "idle"
    /\ pipeline = "none"
    /\ \E p \in {"marketing", "content"} :
          /\ pipeline' = p
          /\ faults' \in {F \in SUBSET (IF p = "marketing" THEN MarketingFaults
                                                             ELSE ContentFaults) :
                              Cardinality(F) <= MaxFaults}
          /\ state' \in IF p = "marketing"
                        THEN {MarketingInitialState(url, ct, ne, ns) :
                                 url \in BrandUrls, ct \in CampaignTypes,
                                 ne \in 1..MaxEmails, ns \in 0..MaxSms}
                        ELSE {ContentInitialState(cts) : cts \in SUBSET ContentTypes}
    /\ pc' = "construct"
    /\ UNCHANGED <<invoked, result, emails_in, sms_in, sequence, cpc, clock, plan_in, flows,
                   hash_seed, pkg_in, package,
                   memory_files, savers, save_log,
                   llm_call,
                   validated>>

----------------------------------------------------------------------------
(* run_marketing_automation_workflow / run_content_generation_workflow *)

\* create_*_graph() is called before the try block: what it raises escapes
Construct ==
    /\ pc = "construct"
    /\ pc' = IF Fault("construct") \in faults THEN "raised" ELSE Steps(pipeline)[1]
    /\ UNCHANGED <<pipeline, faults, state, invoked, result, emails_in, sms_in, sequence, cpc, clock, plan_in, flows,
                   hash_seed, pkg_in, package,
                   memory_files, savers, save_log,
                   llm_call,
                   validated>>

MarketingErrorResult(s, text) ==
    [error |-> "Workflow execution failed: " \o text,
     campaign_type |-> s["campaign_type"]]

ContentErrorResult(s, text) ==
    [error |-> "Content generation workflow failed: " \o text,
     product_description |-> s["product_description"]]

\* workflow.invoke itself raises: the except branch of the run function
InvokeFails ==
    /\ pc = Steps(pipeline)[1]
    /\ invoked = <<>>
    /\ Fault("invoke") \in faults
    /\ result' = IF pipeline = "marketing"
                 THEN MarketingErrorResult(state, ExcForced)
                 ELSE ContentErrorResult(state, ExcForced)
    /\ pc' = "returned"
    /\ UNCHANGED <<pipeline, faults, state, invoked, emails_in, sms_in, sequence, cpc, clock, plan_in, flows,
                   hash_seed, pkg_in, package,
                   memory_files, savers, save_log,
                   llm_call,
                   validated>>

\* a node that iterates a set of strings shows the order this process gives it
RunNodeHashed(p, name, s2, hash_order) ==
    /\ pipeline = p
    /\ pc = name
    /\ Fault("invoke") \notin faults
    /\ state' = s2
    /\ invoked' = Append(invoked, name)
    /\ pc' = NextPc(Steps(p), name)
    /\ hash_seed' = hash_order
    /\ UNCHANGED <<pipeline, faults, result, emails_in, sms_in, sequence, cpc, clock, plan_in, flows,
                   pkg_in, package,
                   memory_files, savers, save_log,
                   llm_call,
                   validated>>

RunNode(p, name, s2) == RunNodeHashed(p, name, s2, hash_seed)

AnalyzeBrand == RunNode("marketing", "analyze_brand", analyze_brand_node(state, faults))
PlanCampaign == RunNode("marketing", "plan_campaign", plan_campaign_node(state, faults))
GenerateEmails == RunNode("marketing", "generate_emails", generate_emails_node(state, faults))
GenerateSms == RunNode("marketing", "generate_sms", generate_sms_node(state, faults))
GenerateVisuals == RunNode("marketing", "generate_visuals", generate_visuals_node(state, faults))
BuildFlow == RunNode("marketing", "build_flow", build_flow_node(state, faults))

AnalyzeRequirements ==
    RunNode("content", "analyze_requirements", analyze_requirements_node(state, faults))
GenerateAdCopy == RunNode("content", "generate_ad_copy", generate_ad_copy_node(state, faults))
GenerateSocialContent ==
    RunNode("content", "generate_social_content", generate_social_content_node(state, faults))
GenerateImages == RunNode("content", "generate_images", generate_images_node(state, faults))
GenerateVideoScripts ==
    RunNode("content", "generate_video_scripts", generate_video_scripts_node(state, faults))
GenerateEmailAssets ==
    RunNode("content", "generate_email_assets", generate_email_assets_node(state, faults))
PackageFinalAssets ==
    \E hash_order \in HashOrders :
        RunNodeHashed("content", "package_assets",
                      package_final_assets_node(state, hash_order, faults), hash_order)

MarketingResult(s) ==
    [brand_name |-> Get(Get(s, "brand_analysis", EmptyDict), "brand_name", "Unknown"),
     campaign_type |-> s["campaign_type"],
     campaign_overview |-> Get(s, "campaign_plan", EmptyDict),
     emails |-> Get(s, "emails", <<>>),
     sms |-> Get(s, "sms", <<>>),
     visuals |-> Get(s, "visuals", <<>>),
     campaign_flow |-> Get(s, "campaign_flow", EmptyDict),
     errors |-> Get(s, "errors", <<>>)]

ContentResult(s) ==
    [product_description |-> s["product_description"],
     target_audience |-> s["target_audience"],
     brand_tone |-> s["brand_tone"],
     ad_copy |-> Get(s, "ad_copy", <<>>),
     social_captions |-> Get(s, "social_captions", EmptyDict),
     images |-> Get(s, "images", <<>>),
     ugc_scripts |-> Get(s, "ugc_scripts", <<>>),
     email_assets |-> Get(s, "email_assets", <<>>),
     final_package |-> Get(s, "final_package", EmptyDict),
     errors |-> Get(s, "errors", <<>>)]

content_fields == <<"ad_copy", "social_captions", "images", "ugc_scripts", "email_assets">>

\* any(result.get(field) for field in content_fields): a non-empty list or dict
\* is truthy, a missing key gives None
validate_content_result(content_result) ==
    \E i \in 1..Len(content_fields) :
        Has(content_result, content_fields[i]) /\ Truthy(content_result[content_fields[i]])

\* invoke returned: format the final result
ReturnMarketingResult ==
    /\ pipeline = "marketing"
    /\ pc = "complete"
    /\ result' = MarketingResult(state)
    /\ pc' = "returned"
    /\ UNCHANGED <<pipeline, faults, state, invoked, emails_in, sms_in, sequence, cpc, clock, plan_in, flows,
                   hash_seed, pkg_in, package,
                   memory_files, savers, save_log,
                   llm_call,
                   validated>>

ReturnContentResult ==
    /\ pipeline = "content"
    /\ pc = "complete"
    /\ result' = ContentResult(state)
    /\ pc' = "returned"
    /\ UNCHANGED <<pipeline, faults, state, invoked, emails_in, sms_in, sequence, cpc, clock, plan_in, flows,
                   hash_seed, pkg_in, package,
                   memory_files, savers, save_log,
                   llm_call,
                   validated>>

Next ==
    \/ Call
    \/ Construct
    \/ InvokeFails
    \/ AnalyzeBrand
    \/ PlanCampaign
    \/ GenerateEmails
    \/ GenerateSms
    \/ GenerateVisuals
    \/ BuildFlow
    \/ AnalyzeRequirements
    \/ GenerateAdCopy
    \/ GenerateSocialContent
    \/ GenerateImages
    \/ GenerateVideoScripts
    \/ GenerateEmailAssets
    \/ PackageFinalAssets
    \/ ReturnMarketingResult
    \/ ReturnContentResult

Spec == Init /\ [][Next]_vars

\* the graph engine runs the next node whenever there is one
FairSpec == Spec /\ WF_vars(Next)

----------------------------------------------------------------------------
(* build_message_sequence applied to arbitrary email and SMS lists, as     *)
(* tests/test_flow_builder.py calls it                                     *)

\* a unit of the input lists: sn = 0 leaves "sequence_number" out, d = 0
\* leaves "timing" out
WithOptional(unit, sn, d) ==
    LET u1 == IF sn = 0 THEN unit ELSE Put(unit, "sequence_number", sn)
    IN IF d = 0 THEN u1 ELSE Put(u1, "timing", [send_after_hours |-> d])

EmailUnit(i, sn, d) ==
    WithOptional([subject |-> "E" \o ToString(i),
                  cta |-> [text |-> "Shop Now", url |-> "[DYNAMIC_URL]"]], sn, d)

SmsUnit(i, sn, d) ==
    WithOptional([message |-> "S" \o ToString(i)], sn, d)

UnitChoices == (0..MaxSeqNo) \X {0, 1}

ChoiceLists == UNION {[1..n -> UnitChoices] : n \in 0..MaxUnits}

EmailLists == {[i \in DOMAIN c |-> EmailUnit(i, c[i][1], c[i][2])] : c \in ChoiceLists}

SmsLists == {[i \in DOMAIN c |-> SmsUnit(i, c[i][1], c[i][2])] : c \in ChoiceLists}

InitCompose ==
    /\ pipeline = "compose"
    /\ faults = {}
    /\ state = EmptyDict
    /\ pc = "idle"
    /\ invoked = <<>>
    /\ result = NoResult
    /\ emails_in \in EmailLists
    /\ sms_in \in SmsLists
    /\ sequence = <<>>
    /\ cpc = "idle"
    /\ FlowIdle
    /\ hash_seed = SummaryNames
    /\ PackageIdle
    /\ RestIdle

Compose ==
    /\ cpc = "idle"
    /\ sequence' = build_message_sequence(emails_in, sms_in)
    /\ cpc' = "composed"
    /\ UNCHANGED <<pipeline, faults, pc, state, invoked, result, emails_in, sms_in,
                   clock, plan_in, flows,
                   hash_seed, pkg_in, package,
                   memory_files, savers, save_log,
                   llm_call,
                   validated>>

NextCompose == Compose

SpecCompose == InitCompose /\ [][NextCompose]_vars

----------------------------------------------------------------------------
(* build_campaign_flow executed on its own, as tests/test_flow_builder.py  *)
(* calls it: the same plan, emails and SMS, at the times the clock shows   *)

PlanCampaignTypes ==
    {"Cart Abandonment", "Welcome Series", "Post-Purchase", "Win-Back", "Custom",
     "Flash Sale", "Welcome Back"}

\* campaign plans, with and without a campaign type
CampaignPlans ==
    {[target_audience |-> "General customers"]}
        \cup {Put([target_audience |-> "General customers"], "campaign_type", t) :
                 t \in PlanCampaignTypes}

\* lists as the generators number them: sequence_number is the position
NumberedEmailLists ==
    UNION {{[i \in 1..n |-> EmailUnit(i, i, d[i])] : d \in [1..n -> {0, 1}]} :
              n \in 0..MaxUnits}

NumberedSmsLists ==
    UNION {{[i \in 1..n |-> SmsUnit(i, i, d[i])] : d \in [1..n -> {0, 1}]} :
              n \in 0..MaxUnits}

InitFlow ==
    /\ pipeline = "flow"
    /\ faults = {}
    /\ state = EmptyDict
    /\ pc = "idle"
    /\ invoked = <<>>
    /\ result = NoResult
    /\ emails_in \in NumberedEmailLists
    /\ sms_in \in NumberedSmsLists
    /\ sequence = <<>>
    /\ cpc = "idle"
    /\ clock = 0
    /\ plan_in \in CampaignPlans
    /\ flows = <<>>
    /\ hash_seed = SummaryNames
    /\ PackageIdle
    /\ RestIdle

\* time passes between two executions
Tick ==
    /\ clock < MaxClock
    /\ clock' = clock + 1
    /\ UNCHANGED <<pipeline, faults, pc, state, invoked, result, emails_in, sms_in,
                   sequence, cpc, plan_in, flows, hash_seed, pkg_in, package,
                   memory_files, savers, save_log,
                   llm_call,
                   validated>>

\* one execution of build_campaign_flow; it takes time
BuildCampaignFlow ==
    /\ Len(flows) < MaxRuns
    /\ clock < MaxClock
    /\ LET r == build_campaign_flow(plan_in, emails_in, sms_in, <<>>, clock, faults)
       IN flows' = Append(flows, IF r.raised THEN [error |-> r.exc] ELSE r.value)
    /\ clock' = clock + 1
    /\ UNCHANGED <<pipeline, faults, pc, state, invoked, result, emails_in, sms_in,
                   sequence, cpc, plan_in, hash_seed, pkg_in, package,
                   memory_files, savers, save_log,
                   llm_call,
                   validated>>

NextFlow == Tick \/ BuildCampaignFlow

SpecFlow == InitFlow /\ [][NextFlow]_vars

----------------------------------------------------------------------------
(* package_assets on arbitrary collections *)

\* ad copy variants: none, one with a call to action, one without before one with
AdCopyInputs ==
    << <<>>,
       <<[headline |-> "H1", cta |-> "Shop Now"]>>,
       <<[headline |-> "H1"], [headline |-> "H2", cta |-> "Shop Now"]>> >>

\* captions by platform: no platform, one platform, a platform without captions
CaptionInputs ==
    << EmptyDict,
       [instagram |-> <<"ig 1">>],
       [instagram |-> <<>>, linkedin |-> <<"li 1", "li 2">>] >>

\* images as callers may pass them: the generator's types and dimensions, and
\* a type and a dimension the generator does not produce
ImagePool ==
    {[type |-> "hero_image", dimensions |-> "1920x1072", file_name |-> "hero_image.png"],
     [type |-> "social_post", dimensions |-> "1080x1080", file_name |-> "social_post.png"],
     [type |-> "product_showcase", dimensions |-> "992x992",
      file_name |-> "product_showcase.png"],
     [type |-> "banner", dimensions |-> "1080x1080", file_name |-> "banner.png"]}

ImageLists == UNION {[1..n -> ImagePool] : n \in 0..MaxImages}

UgcInputs ==
    << <<>>,
       <<[title |-> "script 1",
          platform_versions |-> [instagram |-> "reel", tiktok |-> "short"]],
         [title |-> "script 2"]>> >>

\* email assets: none, none tagged email_header, the header after another asset
EmailAssetInputs ==
    << <<>>,
       <<[type |-> "email_hero", dimensions |-> "600x400", file_name |-> "email_hero.png"]>>,
       <<[type |-> "email_hero", dimensions |-> "600x400", file_name |-> "email_hero.png"],
         [type |-> "email_header", dimensions |-> "600x200",
          file_name |-> "email_header.png"]>> >>

InitPackage ==
    /\ pipeline = "package"
    /\ faults = {}
    /\ state = EmptyDict
    /\ pc = "idle"
    /\ invoked = <<>>
    /\ result = NoResult
    /\ ComposeIdle
    /\ FlowIdle
    /\ hash_seed \in HashOrders
    /\ \E a \in 1..Len(AdCopyInputs), c \in 1..Len(CaptionInputs), u \in 1..Len(UgcInputs),
          e \in 1..Len(EmailAssetInputs), imgs \in ImageLists :
          pkg_in = [ad_copy |-> AdCopyInputs[a],
                    social_captions |-> CaptionInputs[c],
                    images |-> imgs,
                    ugc_scripts |-> UgcInputs[u],
                    email_assets |-> EmailAssetInputs[e]]
    /\ package = NoResult
    /\ RestIdle

\* one call of package_assets
Package ==
    /\ pipeline = "package"
    /\ package = NoResult
    /\ package' = package_assets(pkg_in.ad_copy, pkg_in.social_captions, pkg_in.images,
                                 pkg_in.ugc_scripts, pkg_in.email_assets, EmptyDict,
                                 hash_seed, faults)
    /\ UNCHANGED <<pipeline, faults, pc, state, invoked, result, emails_in, sms_in,
                   sequence, cpc, clock, plan_in, flows, hash_seed, pkg_in,
                   memory_files, savers, save_log,
                   llm_call,
                   validated>>

NextPackage == Package

SpecPackage == InitPackage /\ [][NextPackage]_vars

----------------------------------------------------------------------------
(* saving campaign results to memory, from one or two processes *)

InitMemory ==
    /\ pipeline = "memory"
    /\ faults = {}
    /\ state = EmptyDict
    /\ pc = "idle"
    /\ invoked = <<>>
    /\ result = NoResult
    /\ ComposeIdle
    /\ FlowIdle
    /\ hash_seed = SummaryNames
    /\ PackageIdle
    /\ memory_files = EmptyDict
    /\ savers = [p \in Savers |-> NotSaving]
    /\ \E brand_name \in {"acme", "Test Brand"} :
          save_log = [brand_name |-> brand_name, begun |-> 0, done |-> <<>>,
                      overlaps |-> 0]
    /\ RetryIdle
    /\ ValidateIdle

\* the first half of a save: the file is read (or found missing)
SaveLoad(p, fn) ==
    /\ pipeline = "memory"
    /\ savers[p].at = "idle"
    /\ save_log.begun < MaxSaves
    /\ (\E q \in Savers \ {p} : savers[q].at = "loaded") => save_log.begun < MaxRacingSaves
    /\ LET file == MemoryFile(fn, save_log.brand_name)
       IN savers' = [savers EXCEPT ![p] =
                        [at |-> "loaded", fn |-> fn, file |-> file,
                         campaigns |-> LoadCampaigns(memory_files, file),
                         campaign_result |-> save_log.begun + 1]]
    /\ save_log' = [save_log EXCEPT
                       !.begun = @ + 1,
                       !.overlaps = IF \E q \in Savers \ {p} : savers[q].at = "loaded"
                                    THEN @ + 1 ELSE @]
    /\ UNCHANGED <<pipeline, faults, pc, state, invoked, result, emails_in, sms_in,
                   sequence, cpc, clock, plan_in, flows, hash_seed, pkg_in, package,
                   memory_files,
                   llm_call,
                   validated>>

\* the second half: the campaign is appended to what was read and the file rewritten
SaveStore(p) ==
    /\ pipeline = "memory"
    /\ savers[p].at = "loaded"
    /\ memory_files' = Put(memory_files, savers[p].file,
                           CampaignsToWrite(savers[p].fn, savers[p].campaigns,
                                            savers[p].campaign_result))
    /\ savers' = [savers EXCEPT ![p] = NotSaving]
    /\ save_log' = [save_log EXCEPT
                       !.done = Append(@, [fn |-> savers[p].fn, file |-> savers[p].file,
                                           campaign_result |-> savers[p].campaign_result])]
    /\ UNCHANGED <<pipeline, faults, pc, state, invoked, result, emails_in, sms_in,
                   sequence, cpc, clock, plan_in, flows, hash_seed, pkg_in, package,
                   llm_call,
                   validated>>

NextMemory ==
    \/ \E p \in Savers : SaveLoad(p, "save_campaign_to_memory")
    \/ \E p \in Savers : SaveLoad(p, "save_to_memory")
    \/ \E p \in Savers : SaveStore(p)

SpecMemory == InitMemory /\ [][NextMemory]_vars

----------------------------------------------------------------------------
(* one call of get_llm_response from plan_campaign, or of generate_image    *)
(* from generate_static_images, and what the caller makes of its outcome    *)

InitRetry ==
    /\ pipeline = "retry"
    /\ faults = {}
    /\ state = [errors |-> <<>>]
    /\ pc = "idle"
    /\ invoked = <<>>
    /\ result = NoResult
    /\ ComposeIdle
    /\ FlowIdle
    /\ hash_seed = SummaryNames
    /\ PackageIdle
    /\ MemoryIdle
    /\ ValidateIdle
    /\ \E fn \in {"get_llm_response", "generate_image"} :
          llm_call = [NoCall EXCEPT !.fn = fn, !.at = "loop"]

\* requests.post and the handling of what it gives
RequestsPost ==
    /\ pipeline = "retry"
    /\ llm_call.at = "loop"
    /\ \E response \in Responses : llm_call' = AfterResponse(llm_call, response)
    /\ UNCHANGED <<pipeline, faults, pc, state, invoked, result, emails_in, sms_in,
                   sequence, cpc, clock, plan_in, flows, hash_seed, pkg_in, package,
                   memory_files, savers, save_log,
                   validated>>

\* the caller: plan_campaign_node logs what get_llm_response raised,
\* generate_static_images keeps a placeholder for the image that failed
CallerContinues ==
    /\ pipeline = "retry"
    /\ llm_call.at \in {"returned", "raised"}
    /\ state' =
          IF llm_call.fn = "get_llm_response"
          THEN IF llm_call.at = "raised"
               THEN AppendError(state, "Campaign planning", llm_call.exc)
               ELSE Put(state, "campaign_plan", [campaign_type |-> "Custom"])
          ELSE Put(state, "images",
                   IF llm_call.at = "raised"
                   THEN <<[type |-> "hero_image", error |-> llm_call.exc,
                           status |-> "failed"]>>
                   ELSE <<[type |-> "hero_image", dimensions |-> "1920x1072",
                           file_name |-> "hero_image.png"]>>)
    /\ llm_call' = [llm_call EXCEPT !.at = "step_done"]
    /\ UNCHANGED <<pipeline, faults, pc, invoked, result, emails_in, sms_in,
                   sequence, cpc, clock, plan_in, flows, hash_seed, pkg_in, package,
                   memory_files, savers, save_log,
                   validated>>

NextRetry == RequestsPost \/ CallerContinues

\* each attempt ends: requests.post has a timeout and the sleeps are finite
SpecRetry == InitRetry /\ [][NextRetry]_vars /\ WF_vars(NextRetry)

----------------------------------------------------------------------------
(* planner and generators on their own: the plan, the emails and the SMS of  *)
(* one request, with every LLM call succeeding                               *)

InitTiming ==
    /\ pipeline = "timing"
    /\ faults = {}
    /\ \E campaign_type \in PlanCampaignTypes, num_emails \in 1..MaxPlanned,
          num_sms \in 0..MaxPlanned :
          state = [campaign_type |-> campaign_type, num_emails |-> num_emails,
                   num_sms |-> num_sms]
    /\ pc = "idle"
    /\ invoked = <<>>
    /\ result = NoResult
    /\ ComposeIdle
    /\ FlowIdle
    /\ hash_seed = SummaryNames
    /\ PackageIdle
    /\ RestIdle

\* plan_campaign: parse_campaign_plan on the LLM's answer
PlanTiming ==
    /\ pipeline = "timing"
    /\ pc = "idle"
    /\ state' = Put(state, "campaign_plan",
                    plan_campaign(EmptyDict, state["campaign_type"], state["num_emails"],
                                  state["num_sms"], {}).value)
    /\ pc' = "planned"
    /\ UNCHANGED <<pipeline, faults, invoked, result, emails_in, sms_in,
                   sequence, cpc, clock, plan_in, flows, hash_seed, pkg_in, package,
                   memory_files, savers, save_log, llm_call,
                   validated>>

EmailTiming ==
    /\ pipeline = "timing"
    /\ pc = "planned"
    /\ state' = Put(state, "emails",
                    generate_emails(EmptyDict, state["campaign_plan"],
                                    state["num_emails"], {}).value)
    /\ pc' = "emails"
    /\ UNCHANGED <<pipeline, faults, invoked, result, emails_in, sms_in,
                   sequence, cpc, clock, plan_in, flows, hash_seed, pkg_in, package,
                   memory_files, savers, save_log, llm_call,
                   validated>>

SmsTiming ==
    /\ pipeline = "timing"
    /\ pc = "emails"
    /\ state' = Put(state, "sms",
                    generate_sms(EmptyDict, state["campaign_plan"],
                                 state["num_sms"], {}).value)
    /\ pc' = "generated"
    /\ UNCHANGED <<pipeline, faults, invoked, result, emails_in, sms_in,
                   sequence, cpc, clock, plan_in, flows, hash_seed, pkg_in, package,
                   memory_files, savers, save_log, llm_call,
                   validated>>

NextTiming == PlanTiming \/ EmailTiming \/ SmsTiming

SpecTiming == InitTiming /\ [][NextTiming]_vars

----------------------------------------------------------------------------
(* a content run in which any of the image generation calls may fail, and  *)
(* validate_content_result applied to what the run returned                *)

ValidateFaults == {<<"image", i>> : i \in 1..4} \cup {Fault("ad_copy_llm")}

InitValidate ==
    /\ pipeline = "content"
    /\ faults \in SUBSET ValidateFaults
    /\ \E content_types \in SUBSET ContentTypes : state = ContentInitialState(content_types)
    /\ pc = "construct"
    /\ invoked = <<>>
    /\ result = NoResult
    /\ ComposeIdle
    /\ FlowIdle
    /\ hash_seed = SummaryNames
    /\ PackageIdle
    /\ RestIdle

Validate ==
    /\ pipeline = "content"
    /\ pc = "returned"
    /\ validated = <<>>
    /\ validated' = <<validate_content_result(result)>>
    /\ UNCHANGED <<pipeline, faults, pc, state, invoked, result, emails_in, sms_in,
                   sequence, cpc, clock, plan_in, flows, hash_seed, pkg_in, package,
                   memory_files, savers, save_log, llm_call>>

NextValidate ==
    \/ Construct
    \/ AnalyzeRequirements
    \/ GenerateAdCopy
    \/ GenerateSocialContent
    \/ GenerateImages
    \/ GenerateVideoScripts
    \/ GenerateEmailAssets
    \/ PackageFinalAssets
    \/ ReturnContentResult
    \/ Validate

SpecValidate == InitValidate /\ [][NextValidate]_vars

----------------------------------------------------------------------------
(* vocabulary of the properties *)

StepSet == {MarketingSteps[i] : i \in 1..Len(MarketingSteps)}
               \cup {ContentSteps[i] : i \in 1..Len(ContentSteps)}

SlotOf(step) ==
    CASE step = "analyze_brand" -> "brand_analysis"
      [] step = "plan_campaign" -> "campaign_plan"
      [] step = "generate_emails" -> "emails"
      [] step = "generate_sms" -> "sms"
      [] step = "generate_visuals" -> "visuals"
      [] step = "build_flow" -> "campaign_flow"
      [] step = "analyze_requirements" -> "content_strategy"
      [] step = "generate_ad_copy" -> "ad_copy"
      [] step = "generate_social_content" -> "social_captions"
      [] step = "generate_images" -> "images"
      [] step = "generate_video_scripts" -> "ugc_scripts"
      [] step = "generate_email_assets" -> "email_assets"
      [] step = "package_assets" -> "final_package"

StepLabel(step) ==
    CASE step = "analyze_brand" -> "Brand analysis"
      [] step = "plan_campaign" -> "Campaign planning"
      [] step = "generate_emails" -> "Email generation"
      [] step = "generate_sms" -> "SMS generation"
      [] step = "generate_visuals" -> "Visual generation"
      [] step = "build_flow" -> "Flow building"
      [] step = "analyze_requirements" -> "Requirements analysis"
      [] step = "generate_ad_copy" -> "Ad copy generation"
      [] step = "generate_social_content" -> "Social content generation"
      [] step = "generate_images" -> "Image generation"
      [] step = "generate_video_scripts" -> "Video script generation"
      [] step = "generate_email_assets" -> "Email asset generation"
      [] step = "package_assets" -> "Asset packaging"

StateKeys ==
    {"brand_analysis", "campaign_plan", "emails", "sms", "visuals", "campaign_flow",
     "campaign_type", "num_emails", "num_sms", "target_audience", "tone",
     "content_strategy", "content_types"}

ExcTexts == {ExcForced, ExcLLM, ExcImage} \cup {KeyError(k) : k \in StateKeys}

\* the messages '<step name> failed: <exception text>' of one step
MessagesOf(step) == {StepLabel(step) \o " failed: " \o t : t \in ExcTexts}

StepOfMessage(m) == CHOOSE step \in StepSet : m \in MessagesOf(step)

\* is the step skipped by its input flag
Skipped(step, s) ==
    CASE step = "generate_sms" -> s["num_sms"] = 0
      [] step = "generate_ad_copy" -> "ad_copy" \notin s["content_types"]
      [] step = "generate_social_content" -> "social_captions" \notin s["content_types"]
      [] step = "generate_images" ->
            "static_images" \notin s["content_types"] /\ "product_visuals" \notin s["content_types"]
      [] step = "generate_video_scripts" -> "ugc_scripts" \notin s["content_types"]
      [] step = "generate_email_assets" -> "email_creative" \notin s["content_types"]
      [] OTHER -> FALSE

\* the calls whose failure makes the step's own work raise
StepFaults(step, s) ==
    CASE step = "analyze_brand" -> {Fault("analyze_brand_from_url")}
      [] step = "plan_campaign" -> {Fault("plan_llm")}
      [] step = "generate_emails" -> {<<"email_llm", i>> : i \in 1..s["num_emails"]}
      [] step = "generate_sms" -> {<<"sms_llm", i>> : i \in 1..s["num_sms"]}
      [] step = "generate_visuals" -> {Fault("generate_visuals")}
      [] step = "build_flow" -> {Fault("build_campaign_flow")}
      [] step = "analyze_requirements" -> {Fault("analyze_requirements")}
      [] step = "generate_ad_copy" -> {Fault("ad_copy_llm")}
      [] step = "generate_social_content" -> {Fault("social_llm")}
      [] step = "generate_images" -> {Fault("generate_static_images")}
      [] step = "generate_video_scripts" -> {Fault("ugc_llm")}
      [] step = "generate_email_assets" -> {Fault("generate_email_assets")}
      [] step = "package_assets" -> {Fault("package_assets")}

\* the steps of the running pipeline whose own work is made to raise
RaisingSteps ==
    {step \in {Steps(pipeline)[i] : i \in 1..Len(Steps(pipeline))} :
        ~Skipped(step, state) /\ StepFaults(step, state) \cap faults # {}}

IsPrefix(a, b) == Len(a) <= Len(b) /\ SubSeq(b, 1, Len(a)) = a

----------------------------------------------------------------------------
(* C1: in the marketing pipeline with num_sms > 0, when exactly one step's  *)
(* own work raises and every other step's own work would succeed, the run  *)
(* ends with the slots of the five other steps populated and exactly one   *)
(* entry in errors, naming the failing step; no exception escapes.         *)
C1_PartialFailureIsolation ==
    (/\ pipeline = "marketing"
     /\ pc \in {"complete", "returned", "raised"}
     /\ state["num_sms"] > 0
     /\ {Fault("construct"), Fault("invoke")} \cap faults = {}
     /\ Cardinality(RaisingSteps) = 1)
    => LET failing == CHOOSE step \in RaisingSteps : TRUE
       IN /\ pc # "raised"
          /\ Len(state["errors"]) = 1
          /\ state["errors"][1] \in MessagesOf(failing)
          /\ \A i \in 1..Len(MarketingSteps) :
                MarketingSteps[i] # failing => Has(state, SlotOf(MarketingSteps[i]))

(* C2: in the content pipeline with all five content types requested, when *)
(* exactly one content-type step raises, the other four slots are          *)
(* populated, final_package is built and errors has exactly one entry.     *)
ContentTypeSteps ==
    {"generate_ad_copy", "generate_social_content", "generate_images",
     "generate_video_scripts", "generate_email_assets"}

AllFiveRequested ==
    /\ pipeline = "content"
    /\ \A step \in ContentTypeSteps : ~Skipped(step, state)

OneContentTypeStepRaises ==
    /\ AllFiveRequested
    /\ {Fault("construct"), Fault("invoke")} \cap faults = {}
    /\ Cardinality(RaisingSteps) = 1
    /\ RaisingSteps \subseteq ContentTypeSteps

C2_ContentTypeIsolation ==
    (OneContentTypeStepRaises /\ pc = "returned")
    => LET failing == CHOOSE step \in RaisingSteps : TRUE
       IN /\ \A step \in ContentTypeSteps \ {failing} :
                /\ Has(state, SlotOf(step))
                /\ result[SlotOf(step)] = state[SlotOf(step)]
                /\ result[SlotOf(step)] # <<>>
          /\ ~Has(state, SlotOf(failing))
          /\ Has(state, "final_package")
          /\ result["final_package"] = state["final_package"]
          /\ Has(result["final_package"], "content_summary")
          /\ Len(result["errors"]) = 1
          /\ result["errors"][1] \in MessagesOf(failing)

C2_Witness ==
    /\ OneContentTypeStepRaises
    /\ pc = "returned"
    /\ RaisingSteps = {"generate_ad_copy"}
    /\ Has(result["final_package"], "content_summary")

(* C3: the run functions never throw to the caller; a failure outside any  *)
(* step (construction or invocation) gives a record with 'error' and no    *)
(* 'errors', any other run a record with 'errors' and no 'error'.          *)
C3_AlwaysReturnsARecord ==
    /\ pc # "raised"
    /\ pc = "returned" =>
          IF {Fault("construct"), Fault("invoke")} \cap faults # {}
          THEN Has(result, "error") /\ ~Has(result, "errors")
          ELSE Has(result, "errors") /\ ~Has(result, "error")

(* C4: the steps are visited in one fixed order, the position moving from  *)
(* step i to step i+1 only; every step function is invoked exactly once,   *)
(* whatever the inputs and whichever steps fail, and the engine always     *)
(* reaches 'complete'.                                                     *)
Position(p, at) ==
    IF at = "complete" THEN Len(Steps(p)) + 1 ELSE IndexOf(Steps(p), at)

StepForward ==
    (pc \in StepSet /\ pc' \in StepSet \cup {"complete"})
    => /\ Position(pipeline, pc') = Position(pipeline, pc) + 1
       /\ invoked' = Append(invoked, pc)

InvokedIsPrefix ==
    /\ pipeline \in {"marketing", "content"} => IsPrefix(invoked, Steps(pipeline))
    /\ pc = "complete" => invoked = Steps(pipeline)
    /\ pc \in StepSet => Len(invoked) = Position(pipeline, pc) - 1

EngineStarted == pc \in StepSet /\ Fault("invoke") \notin faults

C4_StraightLineTraversal ==
    /\ [][StepForward]_vars
    /\ []InvokedIsPrefix
    /\ EngineStarted ~> (pc = "complete")

C4_Witness ==
    /\ pc = "complete"
    /\ pipeline = "marketing"
    /\ invoked = MarketingSteps
    /\ Len(state["errors"]) >= 2

(* C5: the errors log is append-only: a step never removes, reorders or    *)
(* rewrites an earlier entry, and the entries appear in the order in which *)
(* the steps that produced them executed.                                  *)
ErrorsOnlyGrow ==
    (Has(state, "errors") /\ Has(state', "errors"))
    => IsPrefix(state["errors"], state'["errors"])

ErrorsInStepOrder ==
    (pipeline \in {"marketing", "content"} /\ Has(state, "errors"))
    => \A i, j \in 1..Len(state["errors"]) :
          i < j => Position(pipeline, StepOfMessage(state["errors"][i]))
                      < Position(pipeline, StepOfMessage(state["errors"][j]))

C5_ErrorsAppendOnly ==
    /\ [][ErrorsOnlyGrow]_vars
    /\ [](pipeline \in {"marketing", "content"} => Has(state, "errors"))
    /\ []ErrorsInStepOrder

C5_Witness ==
    /\ pipeline = "content"
    /\ pc = "complete"
    /\ Len(state["errors"]) >= 2

(* C6: a slot is either absent or fully formed; when the generation call   *)
(* for one email or one image of a batch fails, the state never holds a    *)
(* partially built slot without a matching entry in errors.                *)
ListSlots == {"emails", "sms", "visuals", "images", "email_assets"}

FullyFormed(slot, s) ==
    slot \in ListSlots
    => \A i \in 1..Len(s[slot]) : ~Has(s[slot][i], "error")

ErrorLogged(step, s) ==
    \E i \in 1..Len(s["errors"]) : s["errors"][i] \in MessagesOf(step)

C6_SlotsAllOrNothing ==
    pipeline \in {"marketing", "content"}
    => \A step \in {Steps(pipeline)[i] : i \in 1..Len(Steps(pipeline))} :
          /\ Has(state, SlotOf(step)) =>
                FullyFormed(SlotOf(step), state) \/ ErrorLogged(step, state)
          /\ (Has(state, "emails") => Len(state["emails"]) = state["num_emails"])

(* C7: skipping a step (num_sms = 0, or a content type not requested)      *)
(* appends no error: when no generation call raises the run ends with      *)
(* errors empty and every non-skipped slot populated, campaign_flow and    *)
(* final_package included.                                                 *)
C7_SkipIsNotAnError ==
    (/\ pc = "returned"
     /\ faults \subseteq {Fault("fetch")}
     /\ \E i \in 1..Len(Steps(pipeline)) : Skipped(Steps(pipeline)[i], state))
    => /\ Has(result, "errors")
       /\ result["errors"] = <<>>
       /\ \A i \in 1..Len(Steps(pipeline)) :
             ~Skipped(Steps(pipeline)[i], state) => Has(state, SlotOf(Steps(pipeline)[i]))

(* C8: when a step raises, the engine appends exactly one message          *)
(* '<step name> failed: <exception text>' to errors and leaves every other *)
(* key of the state unchanged; the failing step's slot stays absent.       *)
StepTaken == pc \in StepSet /\ pc' \in StepSet \cup {"complete"}

StepRaised ==
    /\ StepTaken
    /\ \/ state'["errors"] # state["errors"]
       \/ (~Skipped(pc, state) /\ StepFaults(pc, state) \cap faults # {})

FailureFrame ==
    StepRaised
    => /\ \E m \in MessagesOf(pc) : state'["errors"] = Append(state["errors"], m)
       /\ DOMAIN state' = DOMAIN state
       /\ \A k \in DOMAIN state \ {"errors"} : state'[k] = state[k]
       /\ ~Has(state', SlotOf(pc))

C8_FailureLeavesStateUntouched == [][FailureFrame]_vars

C8_Witness ==
    /\ pipeline = "content"
    /\ pc = "generate_social_content"
    /\ state["errors"] = <<"Ad copy generation failed: " \o ExcLLM>>
    /\ ~Has(state, "ad_copy")
    /\ Has(state, "content_strategy")

(* C9: build_message_sequence returns the steps sorted non-decreasingly by  *)
(* delay hours; among units of equal delay every email step comes before   *)
(* every SMS step, and equal-delay units of the same channel are ordered by *)
(* their original sequence number.                                         *)
Composed == cpc = "composed"

\* the sequence number a step carries in its name
SeqNoOf(step) ==
    CHOOSE n \in 0..(MaxSeqNo + 1) :
        step.step_name = Title(step.step_type) \o " " \o ToString(n)

\* the position, in its input list, of the unit a step carries
UnitIndex(step) ==
    IF step.step_type = "email"
    THEN CHOOSE i \in 1..Len(emails_in) : emails_in[i]["subject"] = step.content.subject
    ELSE CHOOSE i \in 1..Len(sms_in) : sms_in[i]["message"] = step.content.message

SortedByDelay ==
    \A a, b \in 1..Len(sequence) :
        a < b => sequence[a].delay.value <= sequence[b].delay.value

EmailBeforeSmsAtTies ==
    \A a, b \in 1..Len(sequence) :
        (/\ sequence[a].delay.value = sequence[b].delay.value
         /\ sequence[a].step_type = "email"
         /\ sequence[b].step_type = "sms") => a < b

SameChannelTie(a, b) ==
    /\ a < b
    /\ sequence[a].delay.value = sequence[b].delay.value
    /\ sequence[a].step_type = sequence[b].step_type

\* the statement as written: ties of one channel follow the sequence numbers
C9_TiesBySequenceNumber ==
    Composed =>
        /\ SortedByDelay
        /\ EmailBeforeSmsAtTies
        /\ \A a, b \in 1..Len(sequence) :
              SameChannelTie(a, b) => SeqNoOf(sequence[a]) <= SeqNoOf(sequence[b])

AscendingSeqNo(units) ==
    \A i, j \in 1..Len(units) :
        i < j => Get(units[i], "sequence_number", 1) <= Get(units[j], "sequence_number", 1)

\* what the stable sort gives: ties of one channel keep their input order,
\* which is the order of the sequence numbers when the lists arrive in it
C9_TiesKeepInputOrder ==
    Composed =>
        /\ SortedByDelay
        /\ EmailBeforeSmsAtTies
        /\ \A a, b \in 1..Len(sequence) :
              SameChannelTie(a, b) =>
                 /\ UnitIndex(sequence[a]) < UnitIndex(sequence[b])
                 /\ (AscendingSeqNo(emails_in) /\ AscendingSeqNo(sms_in))
                       => SeqNoOf(sequence[a]) <= SeqNoOf(sequence[b])

C9_Witness ==
    /\ Composed
    /\ Len(sequence) = 4
    /\ sequence[1].step_type = "email" /\ sequence[2].step_type = "email"
    /\ sequence[3].step_type = "sms" /\ sequence[4].step_type = "sms"
    /\ sequence[1].delay.value = sequence[4].delay.value
    /\ SeqNoOf(sequence[1]) > SeqNoOf(sequence[2])

(* C10: the composed sequence has exactly len(emails) + len(sms) steps and *)
(* each input unit is the content of exactly one step: composition never   *)
(* drops and never duplicates a unit.                                      *)
StepsCarrying(type, key, unit) ==
    {k \in 1..Len(sequence) :
        sequence[k].step_type = type /\ sequence[k].content[key] = unit[key]}

C10_NoLossNoDuplication ==
    Composed =>
        /\ Len(sequence) = Len(emails_in) + Len(sms_in)
        /\ \A i \in 1..Len(emails_in) :
              Cardinality(StepsCarrying("email", "subject", emails_in[i])) = 1
        /\ \A i \in 1..Len(sms_in) :
              Cardinality(StepsCarrying("sms", "message", sms_in[i])) = 1

C10_Witness ==
    /\ Composed
    /\ Len(emails_in) = MaxUnits
    /\ Len(sms_in) = MaxUnits
    /\ Len(sequence) = 2 * MaxUnits
    /\ \E k, l \in 1..Len(sequence) :
          /\ sequence[k].step_type = "email"
          /\ sequence[l].step_type = "sms"
          /\ sequence[k].delay.value = sequence[l].delay.value

(* C11: in every composed sequence of n >= 1 steps the k-th step has id    *)
(* 'step_k'; following next_step from step_1 visits every step once in     *)
(* list order and then reaches 'end_flow': only the last step points to    *)
(* 'end_flow' and no pointer names a step that does not exist.             *)
StepIds == {sequence[k].step_id : k \in 1..Len(sequence)}

C11_NextStepChain ==
    (Composed /\ Len(sequence) >= 1) =>
        LET n == Len(sequence)
        IN /\ \A k \in 1..n : sequence[k].step_id = "step_" \o ToString(k)
           /\ Cardinality(StepIds) = n
           /\ \A k \in 1..(n - 1) :
                 /\ sequence[k].next_step = sequence[k + 1].step_id
                 /\ sequence[k].next_step # "end_flow"
           /\ sequence[n].next_step = "end_flow"
           /\ \A k \in 1..n : sequence[k].next_step \in StepIds \cup {"end_flow"}

C11_Witness ==
    /\ Composed
    /\ Len(sequence) >= 3
    /\ sequence[1].next_step = "step_2"
    /\ sequence[Len(sequence)].next_step = "end_flow"

(* C12: entry-trigger resolution never errors: 'Cart Abandonment' maps to  *)
(* cart_abandonment, 'Welcome Series' to user_signup, 'Post-Purchase' to   *)
(* purchase_completed, 'Win-Back' to user_inactive, and every other        *)
(* campaign type, an unknown or missing one included, to custom_event.     *)
ExpectedTrigger(plan) ==
    IF ~Has(plan, "campaign_type") THEN "custom_event"
    ELSE CASE plan["campaign_type"] = "Cart Abandonment" -> "cart_abandonment"
           [] plan["campaign_type"] = "Welcome Series" -> "user_signup"
           [] plan["campaign_type"] = "Post-Purchase" -> "purchase_completed"
           [] plan["campaign_type"] = "Win-Back" -> "user_inactive"
           [] OTHER -> "custom_event"

C12_EntryTriggerResolution ==
    \A i \in 1..Len(flows) :
        /\ ~Has(flows[i], "error")
        /\ flows[i]["triggers"].entry_trigger.type = ExpectedTrigger(plan_in)

C12_Witness ==
    /\ Len(flows) >= 1
    /\ Has(plan_in, "campaign_type")
    /\ plan_in["campaign_type"] = "Flash Sale"
    /\ flows[1]["triggers"].entry_trigger.type = "custom_event"

(* C13: when both the email list and the SMS list are empty, composition   *)
(* succeeds and returns a flow whose step sequence is empty, whose entry   *)
(* trigger is resolved from the campaign-type table and whose exit         *)
(* triggers are exactly the three fixed ones, as for any other input.      *)
ThreeExitTriggers ==
    <<[type |-> "goal_achieved", condition |-> "user_converts", action |-> "remove_from_flow"],
      [type |-> "user_action", condition |-> "unsubscribe", action |-> "remove_from_flow"],
      [type |-> "time_limit", condition |-> "30_days_elapsed", action |-> "complete_flow"]>>

C13_EmptyCompositionSucceeds ==
    \A i \in 1..Len(flows) :
        /\ ~Has(flows[i], "error")
        /\ flows[i]["triggers"].exit_triggers = ThreeExitTriggers
        /\ (emails_in = <<>> /\ sms_in = <<>>) =>
              /\ flows[i]["sequence"] = <<>>
              /\ flows[i]["triggers"].entry_trigger.type = ExpectedTrigger(plan_in)

C13_Witness ==
    /\ Len(flows) >= 1
    /\ emails_in = <<>>
    /\ sms_in = <<>>
    /\ flows[1]["sequence"] = <<>>
    /\ Len(flows[1]["triggers"].exit_triggers) = 3

(* C14: export is idempotent: rendering the same named export format      *)
(* (klaviyo, mailchimp, hubspot, generic_csv, json) twice from the same    *)
(* campaign plan, emails, SMS and visuals yields identical output,         *)
(* whatever time passes between the two renderings.                        *)
ExportNames == {"klaviyo", "mailchimp", "hubspot", "generic_csv", "json"}

C14_ExportIdempotent ==
    \A i, j \in 1..Len(flows) :
        \A name \in ExportNames :
            flows[i]["export_formats"][name] = flows[j]["export_formats"][name]

(* C15: every export format is a projection of the composed step list: the *)
(* generic CSV export and each ESP-shaped export (klaviyo, mailchimp,      *)
(* hubspot) contain exactly one entry per step of the composed sequence,   *)
(* in the order of the composed sequence and with the same delay hours.    *)
DelaysOf(entries) == [k \in 1..Len(entries) |-> entries[k].delay]

C15_ExportsProjectSequence ==
    \A i \in 1..Len(flows) :
        LET steps == flows[i]["sequence"]
            delays == [k \in 1..Len(steps) |-> steps[k].delay.value]
            exports == flows[i]["export_formats"]
            rows == Tail(exports.generic_csv)
        IN /\ DelaysOf(exports.klaviyo.messages) = delays
           /\ DelaysOf(exports.mailchimp.emails) = delays
           /\ DelaysOf(exports.hubspot.actions) = delays
           /\ [k \in 1..Len(rows) |-> rows[k][5]]
                 = [k \in 1..Len(steps) |-> ToString(delays[k])]

(* C16: the flow id is unique per run: any two executions of               *)
(* build_campaign_flow, two for the same campaign type started at          *)
(* arbitrary times included, produce different flow_id values.             *)
C16_FlowIdUnique ==
    \A i, j \in 1..Len(flows) :
        i # j => flows[i]["flow_id"] # flows[j]["flow_id"]

----------------------------------------------------------------------------
(* The package: what the kits and campaign sets refer to *)

Range(list) == {list[i] : i \in DOMAIN list}

\* the captions of every platform of a captions dict
AllCaptions(by_platform) == UNION {Range(by_platform[pl]) : pl \in DOMAIN by_platform}

\* a selection that may be the empty dict
Selected(asset) == IF Truthy(asset) THEN {asset} ELSE {}

Packaged == package # NoResult /\ ~package.raised

Organized == package.value.organized_assets
Kits == package.value.platform_kits
Sets == package.value.campaign_ready_sets

InventoryImages ==
    Range(Organized.advertising.ad_images) \cup Range(Organized.social_media.social_images)
        \cup Range(Organized.email_marketing.email_images)
        \cup Range(Organized.video_content.video_thumbnails)

ReferencedImages ==
    Range(Kits.instagram.feed_posts.images) \cup Range(Kits.facebook.posts.images)
        \cup Selected(Sets.launch_campaign.assets.hero_image)
        \cup Range(Sets.engagement_campaign.assets.visual_content)
        \cup Range(Sets.conversion_campaign.assets.product_images)

InventoryCaptions == AllCaptions(Organized.social_media.captions_by_platform)

ReferencedCaptions ==
    Range(Kits.instagram.feed_posts.captions) \cup Range(Kits.tiktok.video_content.captions)
        \cup Range(Kits.facebook.posts.video_content)
        \cup Range(Kits.linkedin.posts.captions)
        \cup {Sets.launch_campaign.assets.social_announcement[pl] :
                 pl \in DOMAIN Sets.launch_campaign.assets.social_announcement}
        \cup AllCaptions(Sets.engagement_campaign.assets.social_series)

InventoryAdCopy == Range(Organized.advertising.ad_copy_variants)

ReferencedAdCopy ==
    Selected(Sets.launch_campaign.assets.hero_ad)
        \cup Range(Sets.conversion_campaign.assets.conversion_ads)

InventoryScripts ==
    Range(Organized.social_media.ugc_video_scripts)
        \cup Range(Organized.video_content.ugc_scripts)

ReferencedScripts ==
    Range(Kits.instagram.reels.scripts) \cup Range(Kits.tiktok.video_content.scripts)

InventoryEmailAssets == Range(Organized.email_marketing.email_creative_assets)

ReferencedEmailAssets ==
    Selected(Sets.launch_campaign.assets.email_header)
        \cup Range(Sets.conversion_campaign.assets.email_sequence)

\* C17: every asset that a platform kit or a campaign set of the package refers
\* to is also in the package's inventory (organized_assets), whatever
\* collections package_assets was given.
C17_InventoryContainment ==
    Packaged =>
        /\ ReferencedImages \subseteq InventoryImages
        /\ ReferencedCaptions \subseteq InventoryCaptions
        /\ ReferencedAdCopy \subseteq InventoryAdCopy
        /\ ReferencedScripts \subseteq InventoryScripts
        /\ ReferencedEmailAssets \subseteq InventoryEmailAssets

NonEmptyInputs == {n \in DOMAIN pkg_in : DOMAIN pkg_in[n] # {}}

CaptionCount ==
    Cardinality(UNION {{pl} \X DOMAIN pkg_in.social_captions[pl] :
                          pl \in DOMAIN pkg_in.social_captions})

\* C18: in the content summary total_assets is the sum of the lengths of the
\* five collections (captions counted over all platforms), and content_types
\* lists the non-empty collections in the order ad_copy, social_captions,
\* images, ugc_scripts, email_assets.
C18_ContentSummary ==
    Packaged =>
        /\ package.value.content_summary.total_assets =
              Len(pkg_in.ad_copy) + CaptionCount + Len(pkg_in.images)
                  + Len(pkg_in.ugc_scripts) + Len(pkg_in.email_assets)
        /\ package.value.content_summary.content_types =
              SelectSeq(<<"ad_copy", "social_captions", "images", "ugc_scripts",
                          "email_assets">>,
                        LAMBDA n : n \in NonEmptyInputs)

\* the count alone: it is the sum whatever the order of content_types
TotalAssetsIsTheSum ==
    Packaged =>
        package.value.content_summary.total_assets =
            Len(pkg_in.ad_copy) + CaptionCount + Len(pkg_in.images)
                + Len(pkg_in.ugc_scripts) + Len(pkg_in.email_assets)

Launch == Sets.launch_campaign.assets

\* the positions of the entries of a list that carry a type tag
Tagged(list, tag) == {i \in DOMAIN list : Has(list[i], "type") /\ list[i]["type"] = tag}

First(positions) == CHOOSE i \in positions : \A j \in positions : i <= j

\* the selection is the empty dict when there is nothing to select from
SelectsFirst(selection, list, positions) ==
    IF positions = {} THEN ~Truthy(selection) ELSE selection = list[First(positions)]

\* C19: the launch campaign set holds the first ad copy, the first image tagged
\* hero_image (the first image when none is tagged), the first caption of every
\* platform that has captions and the first email asset tagged email_header;
\* what cannot be selected is empty, and packaging does not raise.
C19_LaunchSelection ==
    package # NoResult =>
        /\ ~package.raised
        /\ SelectsFirst(Launch.hero_ad, pkg_in.ad_copy, DOMAIN pkg_in.ad_copy)
        /\ SelectsFirst(Launch.hero_image, pkg_in.images,
                        IF Tagged(pkg_in.images, "hero_image") # {}
                        THEN Tagged(pkg_in.images, "hero_image")
                        ELSE DOMAIN pkg_in.images)
        /\ DOMAIN Launch.social_announcement =
              {pl \in DOMAIN pkg_in.social_captions : Len(pkg_in.social_captions[pl]) > 0}
        /\ \A pl \in DOMAIN Launch.social_announcement :
              Launch.social_announcement[pl] = pkg_in.social_captions[pl][1]
        /\ SelectsFirst(Launch.email_header, pkg_in.email_assets,
                        Tagged(pkg_in.email_assets, "email_header"))
        /\ (Tagged(pkg_in.images, "social_post") = {}
               => Sets.engagement_campaign.assets.visual_content = <<>>)

\* no ad copy, a hero image behind an untagged one, a platform without captions,
\* the email header behind another asset
C19_Witness ==
    /\ Packaged
    /\ pkg_in.ad_copy = <<>>
    /\ ~Truthy(Launch.hero_ad)
    /\ Len(pkg_in.images) = 2
    /\ Tagged(pkg_in.images, "hero_image") = {2}
    /\ Launch.hero_image = pkg_in.images[2]
    /\ Sets.engagement_campaign.assets.visual_content = <<>>
    /\ DOMAIN pkg_in.social_captions = {"instagram", "linkedin"}
    /\ DOMAIN Launch.social_announcement = {"linkedin"}
    /\ Tagged(pkg_in.email_assets, "email_header") = {2}
    /\ Launch.email_header = pkg_in.email_assets[2]

FiveSlots == {"ad_copy", "social_captions", "images", "ugc_scripts", "email_assets"}

\* the count the content summary keeps for a slot
SummaryCount(summary, slot) ==
    CASE slot = "ad_copy" -> summary.ad_copy_variants
      [] slot = "social_captions" -> summary.total_social_captions
      [] slot = "images" -> summary.images_generated
      [] slot = "ugc_scripts" -> summary.ugc_scripts
      [] slot = "email_assets" -> summary.email_assets

\* the packaging step runs on a state that has the strategy, and
\* package_assets itself is not made to fail
PackagingStep ==
    /\ pipeline = "content"
    /\ pc = "package_assets"
    /\ pc' = "complete"
    /\ Has(state, "content_strategy")
    /\ Fault("package_assets") \notin faults

\* C20: whichever of the five content slots are absent from the workflow state
\* (skipped or failed), the packaging step takes each absent one as empty,
\* completes the summary, the kits, the campaign sets and the CSV preparation,
\* and stores final_package without appending an error.
C20_PackagingToleratesAbsentSlots ==
    [][PackagingStep =>
          /\ Has(state', "final_package")
          /\ Get(state', "errors", <<>>) = Get(state, "errors", <<>>)
          /\ {"content_summary", "organized_assets", "platform_kits",
              "campaign_ready_sets", "export_formats"}
                 \subseteq DOMAIN state'["final_package"]
          /\ \A slot \in FiveSlots :
                ~Has(state, slot)
                    => SummaryCount(state'["final_package"].content_summary, slot) = 0
          /\ state'["final_package"].content_summary.content_types
                 \in {SelectSeq(order, LAMBDA n : Has(state, n) /\ Truthy(state[n])) :
                         order \in HashOrders}
          /\ ~Has(state, "ad_copy")
                => state'["final_package"].export_formats.csv.ad_copy_spreadsheet = <<>>
          /\ (~Has(state, "images") /\ ~Has(state, "ugc_scripts")
                 /\ ~Has(state, "email_assets"))
                => state'["final_package"].export_formats.csv.asset_inventory = <<>>
    ]_vars

\* a finished run in which all five slots were absent when packaging ran
C20_Witness ==
    /\ pipeline = "content"
    /\ pc = "complete"
    /\ FiveSlots \cap DOMAIN state = {}
    /\ Has(state, "final_package")
    /\ state["final_package"].content_summary.total_assets = 0
    /\ state["final_package"].content_summary.content_types = <<>>

----------------------------------------------------------------------------
(* Memory *)

\* the campaign results whose save into a file has finished, in that order
SavedInto(file) ==
    LET saves == SelectSeq(save_log.done, LAMBDA d : d.file = file)
    IN [i \in 1..Len(saves) |-> saves[i].campaign_result]

\* the last k entries of a list, all of them if it is shorter
Latest(list, k) ==
    LET n == IF Len(list) < k THEN Len(list) ELSE k
    IN [i \in 1..n |-> list[Len(list) - n + i]]

Serialized == save_log.overlaps = 0

\* C21: after any number n of saves made one after the other for a brand, the
\* history kept for the brand has at most 10 entries, and they are the latest
\* min(n, 10) saved results in the order of saving.
C21_HistoryCapped ==
    (pipeline = "memory" /\ Serialized) =>
        \A file \in DOMAIN memory_files :
            /\ Len(memory_files[file]) <= 10
            /\ memory_files[file] = Latest(SavedInto(file), 10)

\* C24: two saves for the same brand that do not overlap are both kept; a save
\* that begins while another is between reading and writing can make one of
\* the two results disappear (the state of C24_Witness).
C24_SerializedSavesRetained ==
    (pipeline = "memory" /\ Serialized) =>
        \A file \in DOMAIN memory_files :
            Latest(memory_files[file], 2) = Latest(SavedInto(file), 2)

\* both processes read the missing file, both wrote: one result is left
C24_Witness ==
    /\ pipeline = "memory"
    /\ \A p \in Savers : savers[p].at = "idle"
    /\ save_log.overlaps = 1
    /\ Len(save_log.done) = 2
    /\ save_log.done[1].file = save_log.done[2].file
    /\ save_log.done[1].fn = "save_campaign_to_memory"
    /\ save_log.done[2].fn = "save_campaign_to_memory"
    /\ Len(memory_files[save_log.done[1].file]) = 1

----------------------------------------------------------------------------
(* Brand analysis on a URL that gives no content *)

\* the web site cannot be fetched, or the text is no URL at all
UrlGivesNothing ==
    /\ pipeline = "marketing"
    /\ Has(state, "brand_url")
    /\ (Fault("fetch") \in faults \/ state["brand_url"] = "not a url")

\* the domain of the URL, capitalised; there is none in text that is no URL
DomainName(url) == IF url = "https://www.acme.com" THEN "Acme" ELSE ""

BrandAnalysisRan ==
    /\ \E i \in DOMAIN invoked : invoked[i] = "analyze_brand"
    /\ Fault("analyze_brand_from_url") \notin faults

\* C22: for a URL that cannot be fetched or is no URL, analyze_brand_from_url
\* returns the fallback profile (marked by its error field, brand_name from the
\* domain, products ['Product or Service'], audience 'General consumers'); the
\* brand analysis step stores it and logs no error, and when nothing else
\* fails (and SMS were asked for, so that no step is skipped) the run completes
\* on this profile.
C22_BrandFallback ==
    (UrlGivesNothing /\ BrandAnalysisRan) =>
        /\ Has(state, "brand_analysis")
        /\ Has(state["brand_analysis"], "error")
        /\ state["brand_analysis"]["brand_name"] = DomainName(state["brand_url"])
        /\ state["brand_analysis"]["products"] = <<"Product or Service">>
        /\ state["brand_analysis"]["target_audience"] = "General consumers"
        /\ \A i \in DOMAIN state["errors"] :
              state["errors"][i] \notin MessagesOf("analyze_brand")
        /\ (pc = "returned" /\ faults \subseteq {Fault("fetch")} /\ state["num_sms"] > 0) =>
              /\ result["errors"] = <<>>
              /\ result["brand_name"] = DomainName(state["brand_url"])
              /\ Len(result["emails"]) = state["num_emails"]
              /\ Len(result["sms"]) = state["num_sms"]
              /\ Has(result["campaign_flow"], "sequence")

\* a finished run on the web site that could not be fetched
C22_Witness ==
    /\ UrlGivesNothing
    /\ BrandAnalysisRan
    /\ state["brand_url"] = "https://www.acme.com"
    /\ faults = {Fault("fetch")}
    /\ state["num_sms"] > 0
    /\ pc = "returned"
    /\ result["brand_name"] = "Acme"
    /\ result["errors"] = <<>>

----------------------------------------------------------------------------
(* Retries *)

TextCall == pipeline = "retry" /\ llm_call.fn = "get_llm_response"

\* the attempt numbers (0-based) on which the call got a given response
AttemptsWith(responses) ==
    {i - 1 : i \in {j \in DOMAIN llm_call.responses : llm_call.responses[j] \in responses}}

\* the call slept 2^attempt seconds on that attempt
WaitedOn(attempt) ==
    \E k \in DOMAIN llm_call.slept :
        llm_call.slept[k] = [attempt |-> attempt, wait_time |-> 2 ^ attempt]

SleptOn(attempt) == \E k \in DOMAIN llm_call.slept : llm_call.slept[k].attempt = attempt

BudgetExhausted ==
    /\ Len(llm_call.responses) = 3
    /\ llm_call.responses[3] \in {"429", "RequestException"}

\* C23 as stated: a wait of 2^attempt seconds follows every rate-limit response
\* and every transport error, whichever attempt it happens on.
C23_WaitsAfterEveryFailure ==
    TextCall => \A attempt \in AttemptsWith({"429", "RequestException"}) : WaitedOn(attempt)

C23_Safe ==
    TextCall =>
        /\ Len(llm_call.responses) <= 3
        /\ \A attempt \in AttemptsWith({"429"}) : WaitedOn(attempt)
        /\ \A attempt \in AttemptsWith({"RequestException"}) :
              IF attempt < 2 THEN WaitedOn(attempt) ELSE ~SleptOn(attempt)
        /\ \A attempt \in AttemptsWith({"200", "200_unusable", "503", "500"}) :
              ~SleptOn(attempt)
        /\ Len(llm_call.slept) <= Len(llm_call.responses)
        /\ llm_call.at = "returned" =>
              llm_call.responses[Len(llm_call.responses)] = "200"
        /\ BudgetExhausted => llm_call.at \in {"raised", "step_done"}
        /\ llm_call.at = "step_done" =>
              IF llm_call.responses[Len(llm_call.responses)] = "200"
              THEN Has(state, "campaign_plan") /\ state["errors"] = <<>>
              ELSE /\ ~Has(state, "campaign_plan")
                   /\ Len(state["errors"]) = 1
                   /\ state["errors"][1] = "Campaign planning failed: " \o llm_call.exc

\* C23, amended: get_llm_response makes at most 3 HTTP attempts; it waits
\* 2^attempt seconds after a rate-limit response on any attempt and after a
\* transport error on every attempt but the last, where it raises at once; it
\* always ends, returning text only after a 200 and raising once the budget is
\* used up, and the calling step then logs exactly one error and returns.
C23_BoundedRetry == []C23_Safe /\ <>(llm_call.at = "step_done")

\* three failed attempts, with the waits 1, 2 and 4, and the one logged error
C23_Witness ==
    /\ TextCall
    /\ llm_call.at = "step_done"
    /\ llm_call.responses = <<"429", "RequestException", "429">>
    /\ llm_call.slept = <<[attempt |-> 0, wait_time |-> 1], [attempt |-> 1, wait_time |-> 2],
                          [attempt |-> 2, wait_time |-> 4]>>
    /\ state["errors"] = <<"Campaign planning failed: Failed to get LLM response">>

(* C25: composition fills in defaults. In every composed sequence each input *)
(* unit has a step of its channel carrying its content; an email without a   *)
(* delay is scheduled at 24 hours, an SMS without a delay at 48 hours, a     *)
(* unit without a sequence number is named with number 1, and units that     *)
(* carry the keys keep their own values. The sequence has one step per unit. *)
StepFor(type, unit, default_delay) ==
    \E k \in 1..Len(sequence) :
        /\ sequence[k].step_type = type
        /\ sequence[k].content = build_message_content_block(unit, type)
        /\ sequence[k].delay.value =
              (IF Has(unit, "timing") THEN unit["timing"].send_after_hours
               ELSE default_delay)
        /\ sequence[k].step_name =
              Title(type) \o " "
                 \o ToString(IF Has(unit, "sequence_number") THEN unit["sequence_number"]
                             ELSE 1)

C25_CompositionDefaults ==
    Composed =>
        /\ Len(sequence) = Len(emails_in) + Len(sms_in)
        /\ \A i \in 1..Len(emails_in) : StepFor("email", emails_in[i], 24)
        /\ \A i \in 1..Len(sms_in) : StepFor("sms", sms_in[i], 48)

C25_Witness ==
    /\ Composed
    /\ \E i \in 1..Len(emails_in) :
          ~Has(emails_in[i], "timing") /\ ~Has(emails_in[i], "sequence_number")
    /\ \E i \in 1..Len(sms_in) :
          ~Has(sms_in[i], "timing") /\ ~Has(sms_in[i], "sequence_number")
    /\ \E k, l \in 1..Len(sequence) :
          /\ sequence[k].step_name = "Email 1" /\ sequence[k].delay.value = 24
          /\ sequence[l].step_name = "Sms 1" /\ sequence[l].delay.value = 48

(* C26: within one channel the generated delays never go backwards. The k-th *)
(* generated email is sent after 1, 24, 72, 168, 336 hours for k = 1..5 and   *)
(* after 168*k hours for k > 5; the k-th SMS after 2, 48, 168, 336, 504 and   *)
(* then 168*k hours; in both lists the delay is non-decreasing in k.          *)
EmailHours == <<1, 24, 72, 168, 336>>

SmsHours == <<2, 48, 168, 336, 504>>

SendAfterHours(units) == [k \in 1..Len(units) |-> units[k]["timing"].send_after_hours]

Follows(delays, table) ==
    /\ \A k \in 1..Len(delays) :
          delays[k] = IF k <= Len(table) THEN table[k] ELSE 168 * k
    /\ \A k, l \in 1..Len(delays) : k <= l => delays[k] <= delays[l]

C26_DelaysNeverGoBack ==
    /\ Has(state, "emails") /\ pipeline = "timing" =>
          /\ Len(state["emails"]) = state["num_emails"]
          /\ Follows(SendAfterHours(state["emails"]), EmailHours)
    /\ Has(state, "sms") /\ pipeline = "timing" =>
          /\ Len(state["sms"]) = state["num_sms"]
          /\ Follows(SendAfterHours(state["sms"]), SmsHours)

C26_Witness ==
    /\ pipeline = "timing"
    /\ pc = "generated"
    /\ Len(state["emails"]) = 7
    /\ SendAfterHours(state["emails"]) = <<1, 24, 72, 168, 336, 1008, 1176>>
    /\ SendAfterHours(state["sms"]) = <<2, 48, 168, 336, 504, 1008>>

(* C29: the planned timeline matches the requested counts. Once planned, the *)
(* timeline holds exactly num_emails email entries and num_sms SMS entries,   *)
(* numbered 1..num_emails and 1..num_sms in order, and its trigger hours are  *)
(* non-decreasing.                                                            *)
TimelineOf(type) ==
    SelectSeq(state["campaign_plan"]["timeline"], LAMBDA item : item.type = type)

Numbered(items, n) ==
    /\ Len(items) = n
    /\ \A k \in 1..Len(items) : items[k].sequence = k

C29_TimelineMatchesCounts ==
    pipeline = "timing" /\ Has(state, "campaign_plan") =>
        /\ Numbered(TimelineOf("email"), state["num_emails"])
        /\ Numbered(TimelineOf("sms"), state["num_sms"])
        /\ LET timeline == state["campaign_plan"]["timeline"]
           IN \A k, l \in 1..Len(timeline) :
                 k <= l => timeline[k].trigger_hours <= timeline[l].trigger_hours

(* C27: validate_content_result returns true exactly when at least one       *)
(* content type was generated successfully: applied to the result of a run,  *)
(* it is true iff one of the five content collections of the result holds an *)
(* asset that is not a failure placeholder.                                  *)
Successful(asset) == ~Has(asset, "error")

SomeSuccessful(list) == \E k \in 1..Len(list) : Successful(list[k])

GeneratedSuccessfully(r) ==
    \/ Has(r, "ad_copy") /\ SomeSuccessful(r["ad_copy"])
    \/ Has(r, "social_captions") /\ AllCaptions(r["social_captions"]) # {}
    \/ Has(r, "images") /\ SomeSuccessful(r["images"])
    \/ Has(r, "ugc_scripts") /\ SomeSuccessful(r["ugc_scripts"])
    \/ Has(r, "email_assets") /\ SomeSuccessful(r["email_assets"])

C27_ValidIffSomethingGenerated ==
    validated # <<>> => (validated[1] <=> GeneratedSuccessfully(result))

(* C28: the entry trigger and the target segment classify the campaign type  *)
(* consistently: in every flow built, the primary target segment carries the *)
(* cart conditions iff the entry trigger is cart_abandonment, the welcome    *)
(* conditions iff it is user_signup, the post-purchase conditions iff it is  *)
(* purchase_completed and the win-back conditions iff it is user_inactive.   *)
SegmentConditions(flow) == Range(flow.segmentation.target_segments[1].conditions)

Carries(flow, conditions) == conditions \subseteq SegmentConditions(flow)

Consistent(flow) ==
    LET trigger == flow.triggers.entry_trigger.type
    IN /\ Carries(flow, {"has_cart_items", "cart_value_greater_than_0",
                        "not_purchased_in_last_hour"}) <=> trigger = "cart_abandonment"
       /\ Carries(flow, {"signed_up_in_last_24_hours", "not_in_other_welcome_flows"})
             <=> trigger = "user_signup"
       /\ Carries(flow, {"purchased_in_last_hour", "order_total_greater_than_0"})
             <=> trigger = "purchase_completed"
       /\ Carries(flow, {"last_active_30_days_ago", "previous_purchase_exists"})
             <=> trigger = "user_inactive"

C28_TriggerMatchesSegment ==
    \A k \in 1..Len(flows) : Has(flows[k], "segmentation") => Consistent(flows[k])

(* C30: a successfully generated social_post image of a content run appears  *)
(* among the feed-post images of the Instagram kit of the package that the   *)
(* same run produced.                                                        *)
SocialPostImages(images) ==
    {images[k] : k \in {i \in 1..Len(images) :
                          images[i]["type"] = "social_post" /\ ~Has(images[i], "error")}}

C30_SocialPostInInstagramKit ==
    pipeline = "content" /\ Has(state, "final_package") /\ Has(state, "images") =>
        SocialPostImages(state["images"])
            \subseteq Range(state["final_package"].platform_kits.instagram.feed_posts.images)

====
